---- MODULE Spec2Model ----
(***************************************************************************)
(* Model of the interpreto attribution core: the lazy fan-out over a      *)
(* generator of tuples (commons/generator_tools.py), the occlusion and     *)
(* linear-interpolation perturbators (attributions/perturbations) and the  *)
(* target normalisation of the classification inference wrapper.           *)
(***************************************************************************)
EXTENDS Integers, Sequences, FiniteSets, TLC

\* ------------------------------------------------------------------------
\* Bounds
\* ------------------------------------------------------------------------
\* longest source of pairs handed to PersistentTupleGeneratorWrapper
MaxN == 3
\* most words in a text handed to an occlusion perturbator
MaxWords == 3
\* largest leading (batch) dimension of an input tensor
MaxBatch == 2
\* largest size of a non-batch dimension of an input tensor
MaxFeat == 2
\* largest n_samples of a linear interpolation
MaxSamples == 3
\* largest leading dimension of a 2-D target
MaxTargetRows == 3
\* largest number of targets per sample
MaxTargets == 2
\* most mappings in an iterable handed to an inference entry point
MaxInputs == 3
\* most items in one list of raw model inputs
MaxItems == 2
\* most parts in the class name of a model
MaxNameParts == 4
\* largest n_perturbations and largest mask_dim of a random mask
MaxPerturbations == 2
MaxMaskDim == 2
\* largest n_token_perturbations of a Sobol explainer
MaxTokenPerturbations == 2
MaxExplainers == 3

VARIABLES
    source,     \* the pairs the wrapped generator will yield, in order
    genPos,     \* how many pairs the wrapped generator has yielded so far
    buffer,     \* PersistentTupleGeneratorWrapper.buffer
    position,   \* position[c]: SubGenerator.position of cursor c ("W": whole tuple)
    index,      \* index[c]: read index of cursor c ("W" is the wrapper's own index)
    out,        \* out[c]: the values cursor c has returned, in order
    last,       \* outcome of the most recent __next__ call
    perturbator,  \* the constructed occlusion perturbator (class, mask_value)
    perturbed,    \* outcome of the most recent occlusion perturb call
    interpolator, \* the constructed LinearInterpolationPerturbation (its baseline)
    interpCall,   \* arguments of the most recent adjust_baseline / perturb call
    interpResult, \* what that call returned or raised
    targetCall,   \* arguments (target, logits) of the pending _process_target call
    targetResult, \* what that call returned or raised
    gathered,     \* what the pending _get_targeted_logits_from_mapping call returned or raised
    iterCall,     \* entry point, inputs and targets of an inference call
    iterState,    \* progress of the sequence that call returned
    dispatchCall,   \* entry point and argument type of a dispatched call
    dispatchResult, \* implementation chosen by the dispatch, or the error raised
    rawInputs,    \* the model_inputs handed to process_model_inputs
    standardized, \* what process_model_inputs returned or raised
    ex,           \* the running AttributionExplainer.explain call
    phases,       \* the phases the explain call has entered, in order
    call,         \* name and arguments of a pending call of a function without side effects
    result,       \* what that call returned or raised
    vocab,        \* tokenizer.get_vocab(): the tokens in the order of their ids
    embeddingRows, \* number of rows of the model's input embedding table
    explainers    \* replace_token_id of every SobolAttribution constructed so far

fanVars == <<source, genPos, buffer, position, index, out, last>>

occVars == <<perturbator, perturbed>>

interpVars == <<interpolator, interpCall, interpResult>>

targetVars == <<targetCall, targetResult, gathered>>

iterVars == <<iterCall, iterState>>

dispatchVars == <<dispatchCall, dispatchResult>>

stdVars == <<rawInputs, standardized>>

exVars == <<ex, phases>>

callVars == <<call, result>>

sobolVars == <<vocab, embeddingRows, explainers>>

pipelineVars == <<iterVars, dispatchVars, stdVars, exVars, callVars, sobolVars>>

vars == <<source, genPos, buffer, position, index, out, last, perturbator, perturbed,
          interpolator, interpCall, interpResult, targetCall, targetResult, gathered,
          iterCall, iterState, dispatchCall, dispatchResult, rawInputs, standardized,
          ex, phases, call, result, vocab, embeddingRows, explainers>>

\* ------------------------------------------------------------------------
\* commons/generator_tools.py
\* ------------------------------------------------------------------------
\* the (A, B) pairs a source may yield
PairValues == {<<"a1", "b1">>, <<"a2", "b2">>}

\* all finite sources of at most MaxN pairs
Sources == UNION {[1..n -> PairValues] : n \in 0..MaxN}

\* the wrapper's own iteration and the sub-cursors obtained with wrapper[...]
Cursors == {"W", "A", "B", "S"}

IntPos(i) == [kind |-> "int", start |-> i, stop |-> i + 1, step |-> 1]
SlicePos(a, b, s) == [kind |-> "slice", start |-> a, stop |-> b, step |-> s]
WholePos == [kind |-> "whole", start |-> 0, stop |-> 0, step |-> 1]

\* slices a caller may index the wrapper with
SliceChoices == {SlicePos(0, 1, 1), SlicePos(1, 2, 1), SlicePos(0, 2, 1), SlicePos(0, 2, 2)}

Min(a, b) == IF a < b THEN a ELSE b

\* Python t[start:stop:step] on a tuple (0-based, non-negative bounds, step >= 1)
RECURSIVE SliceFrom(_, _, _, _)
SliceFrom(t, i, stop, step) ==
    IF i >= Min(stop, Len(t)) THEN <<>>
    ELSE <<t[i + 1]>> \o SliceFrom(t, i + step, stop, step)

\* variant of GetPosition that treats a slice as the whole tuple
GetPosition_noslice(t, p) ==
    CASE p.kind = "int" -> t[p.start + 1]
      [] OTHER          -> t

\* Python t[position] for an int or a slice position; "whole" is the tuple itself
GetPosition(t, p) ==
    CASE p.kind = "int"   -> t[p.start + 1]
      [] p.kind = "slice" -> SliceFrom(t, p.start, p.stop, p.step)
      [] OTHER            -> t

\* PersistentTupleGeneratorWrapper.get_subgenerator / SubGenerator.__init__
SubGenerator(p) == [position |-> p, index |-> 0]

\* variant of GeneratorHasNext that gives up one pair early
GeneratorHasNext_early == genPos + 1 < Len(source)

\* next(self.generator): TRUE when the generator still has a pair to yield
GeneratorHasNext == genPos < Len(source)

\* variant of complete_buffer that restarts the producer from its first pair
complete_buffer_restart(buf, pos) == Append(buf, source[1])

\* PersistentTupleGeneratorWrapper.complete_buffer, when the generator yields
complete_buffer(buf, pos) == Append(buf, source[pos + 1])

\* variant of NeedsFetch that fetches one element ahead of the request
NeedsFetch_ahead(c) == index[c] + 1 >= Len(buffer)

\* the test `self.index >= len(buffer)` of both __next__ methods
NeedsFetch(c) == index[c] >= Len(buffer)

\* variant of IndexAfter that counts the request before the fetch
IndexAfter_eager(c, returned) == index[c] + 1

\* `self.index += 1`, the statement after the read of the buffer: the read
\* index of cursor c after an advance that returned a value or raised
IndexAfter(c, returned) == IF returned THEN index[c] + 1 ELSE index[c]

NoLast == [cursor |-> "none", idx |-> 0, result |-> "none", value |-> <<>>]

\* __next__ of cursor c: SubGenerator.__next__ for "A", "B", "S" and
\* PersistentTupleGeneratorWrapper.__next__ for "W"
Advance(c) ==
    IF NeedsFetch(c) /\ ~GeneratorHasNext
    THEN \* complete_buffer raises StopIteration out of next(self.generator)
         /\ last' = [cursor |-> c, idx |-> index[c], result |-> "StopIteration", value |-> <<>>]
         /\ index' = [index EXCEPT ![c] = IndexAfter(c, FALSE)]
         /\ UNCHANGED <<source, genPos, buffer, position, out>>
    ELSE LET buf == IF NeedsFetch(c) THEN complete_buffer(buffer, genPos) ELSE buffer
             pos == IF NeedsFetch(c) THEN genPos + 1 ELSE genPos
         IN  IF index[c] >= Len(buf)
             THEN \* buffer[self.index] out of range
                  /\ buffer' = buf
                  /\ genPos' = pos
                  /\ last' = [cursor |-> c, idx |-> index[c], result |-> "IndexError", value |-> <<>>]
                  /\ UNCHANGED <<source, position, index, out>>
             ELSE LET res == GetPosition(buf[index[c] + 1], position[c])
                  IN  /\ buffer' = buf
                      /\ genPos' = pos
                      /\ index' = [index EXCEPT ![c] = IndexAfter(c, TRUE)]
                      /\ out' = [out EXCEPT ![c] = Append(@, res)]
                      /\ last' = [cursor |-> c, idx |-> index[c], result |-> "value", value |-> <<res>>]
                      /\ UNCHANGED <<source, position>>

WrapperNext == Advance("W") /\ UNCHANGED <<occVars, interpVars, targetVars, pipelineVars>>
ANext == Advance("A") /\ UNCHANGED <<occVars, interpVars, targetVars, pipelineVars>>
BNext == Advance("B") /\ UNCHANGED <<occVars, interpVars, targetVars, pipelineVars>>
SliceNext == Advance("S") /\ UNCHANGED <<occVars, interpVars, targetVars, pipelineVars>>

\* no occlusion perturbator constructed
NoPerturbed ==
    [status |-> "none", inputs |-> <<>>, units |-> 0, variations |-> <<>>,
     embeddings |-> <<>>, mask |-> <<>>]

OccIdle ==
    /\ perturbator = [cls |-> "none", mask_value |-> "none"]
    /\ perturbed = NoPerturbed

\* a value that is not a tensor: None, a Python scalar, a str, a list
NonTensor(type, v) == [type |-> type, shape |-> <<>>, dtype |-> "", data |-> <<v>>]
NoneValue == [type |-> "NoneType", shape |-> <<>>, dtype |-> "", data |-> <<>>]

\* no call made
NoInterpCall == [op |-> "none", baseline |-> NoneValue, inputs |-> NoneValue, n_samples |-> 0]
NoInterpResult ==
    [status |-> "none", why |-> "", value |-> NoneValue, denom |-> 1, mask |-> "None"]

\* no linear-interpolation perturbator constructed
InterpIdle ==
    /\ interpolator = [baseline |-> NoneValue]
    /\ interpCall = NoInterpCall
    /\ interpResult = NoInterpResult

\* no target normalisation requested
NoTargetResult == [status |-> "none", value |-> NoneValue, promotions |-> 0]
NoGathered == [status |-> "none", value |-> NoneValue, targets |-> NoneValue]

TargetIdle ==
    /\ targetCall = [target |-> NoneValue, logits |-> NoneValue]
    /\ targetResult = NoTargetResult
    /\ gathered = NoGathered

\* nothing dispatched, standardized or explained
NoIterCall == [op |-> "none", kind |-> "none", inputs |-> <<>>, targets |-> NoneValue]
NoIterState ==
    [pc |-> "none", requested |-> 0, consumed |-> 0, inferences |-> 0, outputs |-> <<>>, error |-> ""]
NoStandardized == [status |-> "none", value |-> <<>>]

NoDispatchCall == [entry |-> "none", types |-> {}, argtype |-> "none"]
NoDispatchResult == [status |-> "none", impl |-> "", error |-> "", work |-> 0, calls |-> 0]
NoEx == [pc |-> "none"]
IterIdle == iterCall = NoIterCall /\ iterState = NoIterState
DispatchIdle == dispatchCall = NoDispatchCall /\ dispatchResult = NoDispatchResult
NoRawInputs == [type |-> "none"]
StdIdle == rawInputs = NoRawInputs /\ standardized = NoStandardized
ExIdle == ex = NoEx /\ phases = <<>>
NoCall == [op |-> "none"]
NoResult == [status |-> "none"]
CallIdle == call = NoCall /\ result = NoResult
SobolIdle == vocab = <<>> /\ embeddingRows = 0 /\ explainers = <<>>
PipelineIdle == IterIdle /\ DispatchIdle /\ StdIdle /\ ExIdle /\ CallIdle /\ SobolIdle

\* state after PersistentTupleGeneratorWrapper(gen), wrapper[0], wrapper[1], wrapper[slice]
Init ==
    /\ source \in Sources
    /\ genPos = 0
    /\ buffer = <<>>
    /\ \E s \in SliceChoices :
         position = [c \in Cursors |->
                        CASE c = "A" -> SubGenerator(IntPos(0)).position
                          [] c = "B" -> SubGenerator(IntPos(1)).position
                          [] c = "S" -> SubGenerator(s).position
                          [] OTHER   -> WholePos]
    /\ index = [c \in Cursors |-> 0]
    /\ out = [c \in Cursors |-> <<>>]
    /\ last = NoLast
    /\ OccIdle
    /\ InterpIdle
    /\ TargetIdle
    /\ PipelineIdle

Next == WrapperNext \/ ANext \/ BNext \/ SliceNext

Spec == Init /\ [][Next]_vars

\* no fan-out wrapper in use
FanIdle ==
    /\ source = <<>>
    /\ genPos = 0
    /\ buffer = <<>>
    /\ position = [c \in Cursors |-> WholePos]
    /\ index = [c \in Cursors |-> 0]
    /\ out = [c \in Cursors |-> <<>>]
    /\ last = NoLast

\* ------------------------------------------------------------------------
\* attributions/perturbations/occlusion.py
\* ------------------------------------------------------------------------
\* the words of the texts, each with the word pieces the tokenizer splits it into
WordPieces ==
    [w \in {"cat", "unhappy", "it"} |->
        CASE w = "cat"     -> <<"cat">>
          [] w = "unhappy" -> <<"un", "##happy">>
          [] OTHER         -> <<"it">>]

Words == DOMAIN WordPieces

\* a text is the sequence of its whitespace-separated words (str.split)
Texts == UNION {[1..n -> Words] : n \in 0..MaxWords}

\* tokenizer.mask_token and tokenizer.pad_token_id
MaskToken == "[MASK]"
PadTokenId == 0
UnkTokenId == 1

\* the tokenizer's vocabulary: tokenizer.convert_tokens_to_ids on one token
TokenToId(tok) ==
    CASE tok = "[MASK]"  -> 4
      [] tok = "cat"     -> 11
      [] tok = "un"      -> 12
      [] tok = "##happy" -> 13
      [] tok = "it"      -> 14
      [] OTHER           -> UnkTokenId

convert_tokens_to_ids(tokens) == [i \in 1..Len(tokens) |-> TokenToId(tokens[i])]

\* tokenizer.tokenize on the text made of the given words
RECURSIVE tokenize(_)
tokenize(words) ==
    IF words = <<>> THEN <<>>
    ELSE WordPieces[Head(words)] \o tokenize(Tail(words))

\* width of the vectors produced by inputs_embeddings
EmbDim == 2

\* shape of inputs_embeddings(torch.tensor(variation))
EmbeddingShape(variation) == <<Len(variation), EmbDim>>

\* shape of torch.stack(tensors) for tensors of one common shape
StackShape(shapes) == <<Len(shapes)>> \o shapes[1]

\* shape after tensor.unsqueeze(0)
Unsqueeze0(shape) == <<1>> \o shape

\* torch.eye(n)
Eye(n) == [i \in 1..n |-> [j \in 1..n |-> IF i = j THEN 1 ELSE 0]]

Repeat(x, n) == [i \in 1..n |-> x]

SeqMax(lens) == CHOOSE m \in {lens[i] : i \in 1..Len(lens)} : \A i \in 1..Len(lens) : lens[i] <= m

\* `mask_value or tokenizer.mask_token` of both constructors
MaskValueArgs == {"None", "", "[X]"}
ResolveMaskValue(arg) == IF arg \in {"None", ""} THEN MaskToken ELSE arg

\* TokenOcclusionPerturbator.perturb registered for str
TokenPerturbStr(self, words) ==
    LET tokens == tokenize(words)
        n_perturbations == Len(tokens)
        variations == [i \in 1..n_perturbations |->
                         convert_tokens_to_ids(SubSeq(tokens, 1, i - 1) \o <<self.mask_value>>
                                               \o SubSeq(tokens, i + 1, Len(tokens)))]
    IN  IF n_perturbations = 0
        THEN \* torch.stack of an empty list raises
             [NoPerturbed EXCEPT !.status = "RuntimeError", !.inputs = words]
        ELSE [status |-> "ok", inputs |-> words, units |-> n_perturbations,
              variations |-> variations,
              embeddings |-> Unsqueeze0(StackShape([i \in 1..n_perturbations |-> EmbeddingShape(variations[i])])),
              mask |-> Eye(n_perturbations)]

\* WordOcclusionPerturbator.perturb registered for str
WordPerturbStr(self, words) ==
    LET n_perturbations == Len(words)
        raw == [i \in 1..n_perturbations |->
                  convert_tokens_to_ids(tokenize(SubSeq(words, 1, i - 1))
                                        \o Repeat(MaskToken, Len(tokenize(<<words[i]>>)))
                                        \o tokenize(SubSeq(words, i + 1, Len(words))))]
    IN  IF n_perturbations = 0
        THEN \* max() of an empty list raises
             [NoPerturbed EXCEPT !.status = "ValueError", !.inputs = words]
        ELSE LET max_length == SeqMax([i \in 1..n_perturbations |-> Len(raw[i])])
                 variations == [i \in 1..n_perturbations |->
                                  raw[i] \o Repeat(PadTokenId, max_length - Len(raw[i]))]
             IN  [status |-> "ok", inputs |-> words, units |-> n_perturbations,
                  variations |-> variations,
                  embeddings |-> Unsqueeze0(StackShape([i \in 1..n_perturbations |-> EmbeddingShape(variations[i])])),
                  mask |-> Eye(n_perturbations)]

\* one call of TokenOcclusionPerturbator.perturb on a text
TokenPerturb ==
    /\ perturbator.cls = "TokenOcclusionPerturbator"
    /\ \E words \in Texts : perturbed' = TokenPerturbStr(perturbator, words)
    /\ UNCHANGED <<perturbator, fanVars, interpVars, targetVars, pipelineVars>>

\* one call of WordOcclusionPerturbator.perturb on a text
WordPerturb ==
    /\ perturbator.cls = "WordOcclusionPerturbator"
    /\ \E words \in Texts : perturbed' = WordPerturbStr(perturbator, words)
    /\ UNCHANGED <<perturbator, fanVars, interpVars, targetVars, pipelineVars>>

\* perturb registered for str, of the class of the perturbator
PerturbStr(self, words) ==
    IF self.cls = "TokenOcclusionPerturbator"
    THEN TokenPerturbStr(self, words)
    ELSE WordPerturbStr(self, words)

\* the collections of texts handed to perturb
TextLists ==
    UNION {[1..n -> {<<"cat">>, <<"unhappy">>, <<"cat", "it">>, <<"it", "unhappy", "cat">>}] :
             n \in 0..MaxItems}

\* perturb registered for Iterable: `[self.perturb(item) for item in inputs]`;
\* the first item that raises ends the call
PerturbIterable(self, texts) ==
    LET items == [k \in 1..Len(texts) |-> PerturbStr(self, texts[k])]
        failing == {k \in 1..Len(texts) : items[k].status # "ok"}
    IN  IF failing # {}
        THEN [NoPerturbed EXCEPT
                 !.status = items[CHOOSE k \in failing : \A j \in failing : k <= j].status,
                 !.inputs = texts]
        ELSE [status |-> "list", inputs |-> texts, items |-> items]

\* one call of perturb of either perturbator on a collection of texts
PerturbCollection ==
    /\ perturbator.cls # "none"
    /\ \E texts \in TextLists : perturbed' = PerturbIterable(perturbator, texts)
    /\ UNCHANGED <<perturbator, fanVars, interpVars, targetVars, pipelineVars>>

\* state after TokenOcclusionPerturbator(...) or WordOcclusionPerturbator(...)
InitOcclusion ==
    /\ FanIdle
    /\ \E cls \in {"TokenOcclusionPerturbator", "WordOcclusionPerturbator"}, arg \in MaskValueArgs :
         perturbator = [cls |-> cls, mask_value |-> ResolveMaskValue(arg)]
    /\ perturbed = NoPerturbed
    /\ InterpIdle
    /\ TargetIdle
    /\ PipelineIdle

NextOcclusion == TokenPerturb \/ WordPerturb \/ PerturbCollection

SpecOcclusion == InitOcclusion /\ [][NextOcclusion]_vars

\* ------------------------------------------------------------------------
\* attributions/perturbations/linear_interpolation_perturbation.py
\* ------------------------------------------------------------------------
RECURSIVE Prod(_)
Prod(shape) == IF shape = <<>> THEN 1 ELSE Head(shape) * Prod(Tail(shape))

Tensor(shape, dtype, data) == [type |-> "tensor", shape |-> shape, dtype |-> dtype, data |-> data]

DTypes == {"float32", "float64"}
Scalars == {0, 3}

\* the non-batch shapes of the inputs
FeatureShapes == {<<f>> : f \in 1..MaxFeat} \cup {<<1, MaxFeat>>}

TensorsOfShape(shape) ==
    {Tensor(shape, dt, d) : dt \in DTypes, d \in [1..Prod(shape) -> Scalars]}

\* what a caller may pass as `inputs`: a tensor (batch, *input_shape) or a list
InputValues ==
    UNION {TensorsOfShape(<<b>> \o fs) : b \in 1..MaxBatch, fs \in FeatureShapes}
    \cup {NonTensor("list", 0)}

\* what a caller may pass as `baseline`
BaselineValues ==
    {NoneValue, NonTensor("float", 3), NonTensor("int", 3), NonTensor("str", 7)}
    \cup UNION {TensorsOfShape(fs) : fs \in FeatureShapes}

\* baselines the constructor's assert lets through
ConstructorBaselines == {b \in BaselineValues : b.type \in {"tensor", "int", "float", "NoneType"}}

\* torch.full(shape, v, dtype=dtype)
Full(shape, v, dtype) == Tensor(shape, dtype, [i \in 1..Prod(shape) |-> v])

\* variant of InputShape that keeps the batch dimension
InputShape_with_batch(inputs) == inputs.shape

\* input_shape = inputs.shape[1:]
InputShape(inputs) == Tail(inputs.shape)

\* variant of CheckTensorBaseline that never looks at the dtype
CheckTensorBaseline_no_dtype(baseline, inputs) ==
    IF baseline.shape # InputShape(inputs) THEN "shape" ELSE "ok"

\* the two checks of the torch.Tensor branch of adjust_baseline, in order
CheckTensorBaseline(baseline, inputs) ==
    IF baseline.shape # InputShape(inputs) THEN "shape"
    ELSE IF baseline.dtype # inputs.dtype THEN "dtype"
    ELSE "ok"

Raised(exc, why) == [NoInterpResult EXCEPT !.status = exc, !.why = why]
Returned(v) == [NoInterpResult EXCEPT !.status = "ok", !.value = v]

\* LinearInterpolationPerturbation.adjust_baseline
adjust_baseline(baseline, inputs) ==
    IF inputs.type # "tensor" THEN Raised("TypeError", "inputs")
    ELSE LET b0 == IF baseline.type = "NoneType" THEN NonTensor("int", 0) ELSE baseline
         IN  CASE b0.type \in {"int", "float"} ->
                    Returned(Full(InputShape(inputs), b0.data[1], inputs.dtype))
               [] b0.type = "tensor" ->
                    LET chk == CheckTensorBaseline(b0, inputs)
                    IN  IF chk = "ok" THEN Returned(b0) ELSE Raised("ValueError", chk)
               [] OTHER -> Raised("TypeError", "baseline")

\* variant of LinspaceDenom for a linspace that leaves out its end point
LinspaceDenom_open(n_samples) == n_samples

\* torch.linspace(0, 1, n_samples)[k] is LinspaceNum(k) / LinspaceDenom(n_samples);
\* a single sample is the start value 0
LinspaceDenom(n_samples) == IF n_samples >= 2 THEN n_samples - 1 ELSE 1
LinspaceNum(k) == k

\* (1 - alphas) * inputs + alphas * baseline, broadcast to (batch, steps, *input_shape);
\* the data are numerators over the common denominator LinspaceDenom(n_samples)
Interpolate(inputs, baseline, n_samples) ==
    LET F == Prod(InputShape(inputs))
        B == inputs.shape[1]
        D == LinspaceDenom(n_samples)
        at(b, k, i) == (D - LinspaceNum(k)) * inputs.data[b * F + i + 1]
                       + LinspaceNum(k) * baseline.data[i + 1]
    IN  Tensor(<<B, n_samples>> \o InputShape(inputs), inputs.dtype,
               [j \in 1..(B * n_samples * F) |->
                   at((j - 1) \div (n_samples * F), ((j - 1) \div F) % n_samples, (j - 1) % F)])

\* LinearInterpolationPerturbation.perturb
perturb(self, inputs, n_samples) ==
    LET adj == adjust_baseline(self.baseline, inputs)
    IN  IF adj.status # "ok" THEN adj
        ELSE [status |-> "ok", why |-> "",
              value |-> Interpolate(inputs, adj.value, n_samples),
              denom |-> LinspaceDenom(n_samples), mask |-> "None"]

\* the pending static call adjust_baseline(baseline, inputs) returns or raises
AdjustBaselineCall ==
    /\ interpCall.op = "adjust_baseline"
    /\ interpResult.status = "none"
    /\ interpResult' = adjust_baseline(interpCall.baseline, interpCall.inputs)
    /\ UNCHANGED <<interpolator, interpCall, fanVars, occVars, targetVars, pipelineVars>>

\* the pending call perturb(inputs, n_samples) on the constructed perturbator returns or raises
InterpPerturbCall ==
    /\ interpCall.op = "perturb"
    /\ interpResult.status = "none"
    /\ interpResult' = perturb(interpolator, interpCall.inputs, interpCall.n_samples)
    /\ UNCHANGED <<interpolator, interpCall, fanVars, occVars, targetVars, pipelineVars>>

\* state at the call: either the static adjust_baseline(baseline, inputs), or
\* perturb(inputs, n_samples) on a LinearInterpolationPerturbation(baseline)
InitInterp ==
    /\ FanIdle
    /\ OccIdle
    /\ TargetIdle
    /\ PipelineIdle
    /\ interpResult = NoInterpResult
    /\ \/ /\ interpolator = [baseline |-> NoneValue]
          /\ \E baseline \in BaselineValues, inputs \in InputValues :
               interpCall = [op |-> "adjust_baseline", baseline |-> baseline,
                             inputs |-> inputs, n_samples |-> 0]
       \/ /\ interpolator \in {[baseline |-> b] : b \in ConstructorBaselines}
          /\ \E inputs \in InputValues, n_samples \in 1..MaxSamples :
               interpCall = [op |-> "perturb", baseline |-> interpolator.baseline,
                             inputs |-> inputs, n_samples |-> n_samples]

NextInterp == AdjustBaselineCall \/ InterpPerturbCall

SpecInterp == InitInterp /\ [][NextInterp]_vars

\* ------------------------------------------------------------------------
\* commons/model_wrapping/classification_inference_wrapper.py
\* ------------------------------------------------------------------------
\* number of classes of the model (last dimension of the logits)
NumClasses == 2

LogitValues == {-1, 2}

\* logits of shape (n, c)
LogitsValues ==
    UNION {{Tensor(<<n, NumClasses>>, "float32", d) : d \in [1..(n * NumClasses) -> LogitValues]}
           : n \in 1..MaxBatch}

\* target tensors with 0 to 3 dimensions holding class indices
TargetShapes ==
    {<<>>} \cup {<<t>> : t \in 1..MaxTargets}
    \cup {<<m, t>> : m \in 1..MaxTargetRows, t \in 1..MaxTargets}
    \cup {<<1, 1, 1>>, <<2, 1, 1>>, <<1, 1, 1, 1>>}

TargetValues ==
    UNION {{Tensor(sh, "int64", d) : d \in [1..Prod(sh) -> 0..(NumClasses - 1)]} : sh \in TargetShapes}

\* variant of Dim that counts at most two dimensions
Dim_capped(t) == Min(Len(t.shape), 2)

\* target.dim()
Dim(t) == Len(t.shape)

\* target.unsqueeze(0)
UnsqueezeTensor0(t) == [t EXCEPT !.shape = <<1>> \o @]

\* variant of ExpandRows that keeps a single copy of the row
ExpandRows_single(t, n) == [t EXCEPT !.shape = <<1, Len(t.data)>>]

\* t.expand(n, -1) for a tensor holding one row: the row repeated n times
ExpandRows(t, n) ==
    LET w == Len(t.data)
    IN  [t EXCEPT !.shape = <<n, w>>, !.data = [j \in 1..(n * w) |-> t.data[((j - 1) % w) + 1]]]

\* ClassificationInferenceWrapper._process_target
RECURSIVE process_target(_, _)
process_target(target, logits) ==
    CASE Dim(target) = 0 ->
            LET r == process_target(UnsqueezeTensor0(target), logits)
            IN  [r EXCEPT !.promotions = @ + 1]
      [] Dim(target) = 1 ->
            \* index_shape = logits.shape with the last entry replaced by len(target)
            [status |-> "ok", value |-> ExpandRows(target, logits.shape[1]), promotions |-> 0]
      [] Dim(target) = 2 ->
            IF target.shape[1] = 1
            THEN [status |-> "ok", value |-> ExpandRows(target, logits.shape[1]), promotions |-> 0]
            ELSE [status |-> "ok", value |-> target, promotions |-> 0]
      [] OTHER -> [status |-> "ValueError", value |-> NoneValue, promotions |-> 0]

\* variant of GatherLast that reads every row from the first row of the logits
GatherLast_first_row(logits, idx) ==
    IF idx.shape[1] > logits.shape[1]
    THEN [status |-> "RuntimeError", value |-> NoneValue]
    ELSE [status |-> "ok",
          value |-> Tensor(idx.shape, logits.dtype,
                           [j \in 1..Len(idx.data) |-> logits.data[idx.data[j] + 1]])]

\* logits.gather(-1, idx) for 2-D logits and a 2-D index: the index may not have
\* more rows than the logits; entry (b, j) is logits[b][idx[b][j]]
GatherLast(logits, idx) ==
    IF idx.shape[1] > logits.shape[1]
    THEN [status |-> "RuntimeError", value |-> NoneValue]
    ELSE [status |-> "ok",
          value |-> Tensor(idx.shape, logits.dtype,
                           [j \in 1..Len(idx.data) |->
                               logits.data[((j - 1) \div idx.shape[2]) * logits.shape[2]
                                           + idx.data[j] + 1]])]

\* ClassificationInferenceWrapper._get_targeted_logits_from_mapping, on the
\* logits the model returns for the mapping
get_targeted_logits_from_mapping(logits, targets) ==
    LET t == process_target(targets, logits)
    IN  IF t.status # "ok"
        THEN [status |-> t.status, value |-> NoneValue, targets |-> NoneValue]
        ELSE LET g == GatherLast(logits, t.value)
             IN  [status |-> g.status, value |-> g.value, targets |-> t.value]

\* the pending call _get_targeted_logits_from_mapping(model_inputs, targets) returns or raises
GetTargetedLogitsCall ==
    /\ targetCall.target.type = "tensor"
    /\ targetResult.status = "none"
    /\ gathered.status = "none"
    /\ gathered' = get_targeted_logits_from_mapping(targetCall.logits, targetCall.target)
    /\ UNCHANGED <<targetCall, targetResult, fanVars, occVars, interpVars, pipelineVars>>

\* the pending call _process_target(target, logits) returns or raises
ProcessTargetCall ==
    /\ targetCall.target.type = "tensor"
    /\ targetResult.status = "none"
    /\ gathered.status = "none"
    /\ targetResult' = process_target(targetCall.target, targetCall.logits)
    /\ UNCHANGED <<targetCall, gathered, fanVars, occVars, interpVars, pipelineVars>>

\* state at the call _process_target(target, logits)
InitTarget ==
    /\ FanIdle
    /\ OccIdle
    /\ InterpIdle
    /\ \E target \in TargetValues, logits \in LogitsValues :
         targetCall = [target |-> target, logits |-> logits]
    /\ targetResult = NoTargetResult
    /\ gathered = NoGathered
    /\ PipelineIdle

NextTarget == ProcessTargetCall \/ GetTargetedLogitsCall

SpecTarget == InitTarget /\ [][NextTarget]_vars

\* the input mappings and the logits (n, c) the wrapped model returns for each
\* (_get_logits_from_mapping)
ModelLogits ==
    [x \in {"x1", "x2", "x3"} |->
        CASE x = "x1" -> Tensor(<<1, NumClasses>>, "float32", <<-1, 2>>)
          [] x = "x2" -> Tensor(<<2, NumClasses>>, "float32", <<5, 3, 4, 7>>)
          [] OTHER    -> Tensor(<<2, NumClasses>>, "float32", <<6, 8, 9, 1>>)]

InputIds == DOMAIN ModelLogits

\* index of the first largest entry of row b (from 1) of 2-D logits, from 0
ArgmaxRow(logits, b) ==
    LET c == logits.shape[2]
        row == [j \in 1..c |-> logits.data[(b - 1) * c + j]]
    IN  (CHOOSE j \in 1..c : (\A k \in 1..c : row[k] <= row[j])
                              /\ (\A i \in 1..(j - 1) : row[i] < row[j])) - 1

\* logits.argmax(dim=-1)
Argmax(logits) ==
    Tensor(<<logits.shape[1]>>, "int64", [b \in 1..logits.shape[1] |-> ArgmaxRow(logits, b)])

\* _get_targets_from_mapping
get_targets_from_mapping(logits) == Argmax(logits)

\* targets.view(1, -1) when targets.dim() is 0 or 1
ViewTargets(targets) ==
    IF Dim(targets) \in {0, 1}
    THEN [targets EXCEPT !.shape = <<1, Len(targets.data)>>]
    ELSE targets

\* variant of SelectIndex that always reads the first row
SelectIndex_first(targets, idx) == 0

\* `single_index and index`, with single_index = int(targets.shape[0] > 1);
\* idx counts from 0
SelectIndex(targets, idx) == IF targets.shape[1] > 1 THEN idx ELSE 0

\* targets[i] for i from 0: the tensor without its first dimension
TensorAt(t, i) ==
    LET w == Prod(Tail(t.shape))
    IN  [t EXCEPT !.shape = Tail(t.shape), !.data = SubSeq(t.data, i * w + 1, (i + 1) * w)]

\* one element of _get_targeted_logits_from_iterable: the gather of the logits
\* of input number idx (from 0) at its row of the targets
TargetedLogitsOfElement(logits, targets, idx) ==
    LET tv == ViewTargets(targets)
        i == SelectIndex(tv, idx)
    IN  IF i >= tv.shape[1] THEN [status |-> "IndexError", value |-> NoneValue]
        ELSE LET row == UnsqueezeTensor0(TensorAt(tv, i))
             IN  IF Dim(row) > 2
                 THEN \* expand(n, -1) names fewer sizes than the tensor has dimensions
                      [status |-> "RuntimeError", value |-> NoneValue]
                 ELSE GatherLast(logits, ExpandRows(row, logits.shape[1]))

\* the output an entry point computes from the logits of input number idx
ElementOutput(op, logits, targets, idx) ==
    IF op = "get_targets"
    THEN [status |-> "ok", value |-> get_targets_from_mapping(logits)]
    ELSE TargetedLogitsOfElement(logits, targets, idx)

\* get_targets / get_targeted_logits called on a single mapping: one tensor
EntryFromMapping ==
    /\ iterCall.kind = "mapping"
    /\ iterState.pc = "called"
    /\ LET logits == ModelLogits[iterCall.inputs[1]]
           r == IF iterCall.op = "get_targets"
                THEN [status |-> "ok", value |-> get_targets_from_mapping(logits)]
                ELSE get_targeted_logits_from_mapping(logits, iterCall.targets)
       IN  iterState' = [iterState EXCEPT
                            !.pc = IF r.status = "ok" THEN "returned" ELSE "raised",
                            !.inferences = 1,
                            !.outputs = IF r.status = "ok" THEN <<r.value>> ELSE <<>>,
                            !.error = IF r.status = "ok" THEN "" ELSE r.status]
    /\ UNCHANGED <<iterCall, fanVars, occVars, interpVars, targetVars, callVars, sobolVars, dispatchVars, stdVars, exVars>>

\* get_targets / get_targeted_logits called on an iterable: a generator object
\* is returned and none of its body has run
EntryFromIterable ==
    /\ iterCall.kind = "iterable"
    /\ iterState.pc = "called"
    /\ iterState' = [iterState EXCEPT !.pc = "created"]
    /\ UNCHANGED <<iterCall, fanVars, occVars, interpVars, targetVars, callVars, sobolVars, dispatchVars, stdVars, exVars>>

\* the consumer asks the returned generator for its next element: the logits
\* generator takes the next mapping and runs the model on it, and the entry
\* point turns those logits into its output
NextElement ==
    /\ iterCall.kind = "iterable"
    /\ iterState.pc \in {"created", "suspended"}
    /\ IF iterState.consumed = Len(iterCall.inputs)
       THEN iterState' = [iterState EXCEPT !.pc = "done", !.requested = @ + 1]
       ELSE LET idx == iterState.consumed
                logits == ModelLogits[iterCall.inputs[idx + 1]]
                r == ElementOutput(iterCall.op, logits, iterCall.targets, idx)
            IN  iterState' = [iterState EXCEPT
                                 !.pc = IF r.status = "ok" THEN "suspended" ELSE "raised",
                                 !.requested = @ + 1,
                                 !.consumed = @ + 1,
                                 !.inferences = @ + 1,
                                 !.outputs = IF r.status = "ok" THEN Append(@, r.value) ELSE @,
                                 !.error = IF r.status = "ok" THEN "" ELSE r.status]
    /\ UNCHANGED <<iterCall, fanVars, occVars, interpVars, targetVars, callVars, sobolVars, dispatchVars, stdVars, exVars>>

InputSeqs == UNION {[1..m -> InputIds] : m \in 0..MaxInputs}

\* state at a call of get_targets(model_inputs) or get_targeted_logits(model_inputs, targets)
InitIter ==
    /\ FanIdle
    /\ OccIdle
    /\ InterpIdle
    /\ TargetIdle
    /\ CallIdle
    /\ SobolIdle
    /\ DispatchIdle
    /\ StdIdle
    /\ ExIdle
    /\ \E op \in {"get_targets", "get_targeted_logits"}, kind \in {"mapping", "iterable"},
          inputs \in InputSeqs, targets \in TargetValues \cup {NoneValue} :
         /\ kind = "mapping" => Len(inputs) = 1
         /\ op = "get_targets" <=> targets = NoneValue
         /\ iterCall = [op |-> op, kind |-> kind, inputs |-> inputs, targets |-> targets]
    /\ iterState = [NoIterState EXCEPT !.pc = "called"]

NextIter == EntryFromMapping \/ EntryFromIterable \/ NextElement

SpecIter == InitIter /\ [][NextIter]_vars

\* the Python types of the arguments tried at the dispatched entry points
ArgTypes == {"str", "dict", "list", "generator", "Tensor", "int", "float", "NoneType"}

\* the classes, other than object, a value of each type is an instance of
Bases(t) ==
    CASE t = "str"       -> {"str", "Iterable"}
      [] t = "dict"      -> {"dict", "MutableMapping", "Iterable"}
      [] t = "list"      -> {"list", "Iterable"}
      [] t = "generator" -> {"generator", "Iterator", "Iterable"}
      [] t = "Tensor"    -> {"Tensor", "Iterable"}
      [] OTHER           -> {t}

\* place of a class in the method resolution order: larger is more specific
Specificity(c) ==
    CASE c = "Iterable" -> 1
      [] c \in {"Iterator", "MutableMapping"} -> 2
      [] OTHER -> 3

\* the methods dispatched on the type of their first argument
Entries == {"perturb", "get_targets", "get_targeted_logits", "get_gradients", "allow_sequences_of"}

\* type lists given to allow_sequences_of; the empty one is allow_sequences_of()
TypeLists == SUBSET {"str", "Tensor", "MutableMapping"}

\* the classes an entry point has an implementation registered for
Registry(entry, types) ==
    CASE entry = "perturb" -> {"str", "Iterable"}
      [] entry = "allow_sequences_of" -> types \cup {"Iterator", "Iterable"}
      [] OTHER -> {"MutableMapping", "Iterable"}

\* what the undecorated function of an entry point does when no registered
\* class matches
BaseImpl(entry, types) ==
    CASE entry = "allow_sequences_of" -> IF types = {} THEN "func" ELSE "error_impl"
      [] OTHER -> "NotImplementedError"

\* variant of Dispatch that hands unmatched arguments to the Iterable implementation
Dispatch_iterable_fallback(entry, types, argtype) ==
    LET hits == Registry(entry, types) \cap Bases(argtype)
    IN  IF hits = {} THEN "Iterable"
        ELSE CHOOSE c \in hits : \A o \in hits : Specificity(o) <= Specificity(c)

\* singledispatchmethod: the most specific registered class the argument is an
\* instance of, or "object" (the undecorated function) when there is none
Dispatch(entry, types, argtype) ==
    LET hits == Registry(entry, types) \cap Bases(argtype)
    IN  IF hits = {} THEN "object"
        ELSE CHOOSE c \in hits : \A o \in hits : Specificity(o) <= Specificity(c)

\* the implementations that only build a generator when called: their body,
\* and so every inference, runs when the result is iterated
LazyImpl(entry, class) ==
    \/ entry \in {"get_targets", "get_targeted_logits", "get_gradients"} /\ class = "Iterable"
    \/ entry = "allow_sequences_of" /\ class \in {"Iterator", "Iterable"}

\* the call entry(argument) is dispatched and the chosen implementation runs up
\* to its return or raise; work counts the perturbations or inferences started
DispatchedCall ==
    /\ dispatchCall.entry \in Entries
    /\ dispatchResult.status = "none"
    /\ LET entry == dispatchCall.entry
           types == dispatchCall.types
           class == Dispatch(entry, types, dispatchCall.argtype)
           base == BaseImpl(entry, types)
       IN  dispatchResult' =
             IF class = "object" /\ base = "NotImplementedError"
             THEN [status |-> "raised", impl |-> "object", error |-> "NotImplementedError",
                   work |-> 0, calls |-> 1]
             ELSE IF class = "object" /\ base = "error_impl"
             THEN [status |-> "raised", impl |-> "object", error |-> "TypeError",
                   work |-> 0, calls |-> 1]
             ELSE [status |-> "returned", impl |-> class, error |-> "",
                   work |-> IF LazyImpl(entry, class) THEN 0 ELSE 1, calls |-> 1]
    /\ UNCHANGED <<dispatchCall, fanVars, occVars, interpVars, targetVars, callVars, sobolVars, iterVars, stdVars, exVars>>

\* state at a call of a dispatched method with one argument
InitDispatch ==
    /\ FanIdle
    /\ OccIdle
    /\ InterpIdle
    /\ TargetIdle
    /\ CallIdle
    /\ SobolIdle
    /\ IterIdle
    /\ StdIdle
    /\ ExIdle
    /\ \E entry \in Entries, types \in TypeLists, argtype \in ArgTypes :
         /\ entry # "allow_sequences_of" => types = {}
         /\ dispatchCall = [entry |-> entry, types |-> types, argtype |-> argtype]
    /\ dispatchResult = NoDispatchResult

NextDispatch == DispatchedCall

SpecDispatch == InitDispatch /\ [][NextDispatch]_vars

\* ids of the special tokens the tokenizer puts around a text
ClsTokenId == 2
SepTokenId == 3

\* tokenizer(text, return_tensors="pt", ...): a mapping with batch size 1
Tokenizer(words) ==
    LET ids == <<ClsTokenId>> \o convert_tokens_to_ids(tokenize(words)) \o <<SepTokenId>>
    IN  [type |-> "mapping", input_ids |-> <<ids>>, attention_mask |-> <<Repeat(1, Len(ids))>>]

\* a tokenized batch of n samples; row i of a field is field[i]
BatchMapping(n) ==
    [type |-> "mapping",
     input_ids |-> [i \in 1..n |-> <<ClsTokenId, 10 + i, SepTokenId>>],
     attention_mask |-> [i \in 1..n |-> <<1, 1, 1>>]]

\* raw model inputs: texts, mappings, a value of an unsupported type, and
\* lists of those nested up to two deep
RawLeaves ==
    {[type |-> "str", words |-> w] : w \in {<<"cat">>, <<"unhappy", "it">>}}
    \cup {BatchMapping(n) : n \in 0..MaxBatch}
    \cup {[type |-> "int"]}
ListsOf(elems) == {[type |-> "list", items |-> it] : it \in UNION {[1..k -> elems] : k \in 0..MaxItems}}
RawInputValues == RawLeaves \cup ListsOf(RawLeaves \cup ListsOf(RawLeaves))

\* {key: value[i].unsqueeze(0) for key, value in model_inputs.items()}, i from 1
RowMapping(m, i) ==
    [type |-> "mapping", input_ids |-> <<m.input_ids[i]>>, attention_mask |-> <<m.attention_mask[i]>>]

\* the MutableMapping branch of process_model_inputs
SplitMapping(m) ==
    LET n == Len(m.attention_mask)
    IN  IF n > 1 THEN [i \in 1..n |-> RowMapping(m, i)] ELSE <<m>>

\* AttributionExplainer.process_model_inputs; ChainItems is
\* list(itertools.chain(*[self.process_model_inputs(item) for item in model_inputs]))
RECURSIVE process_model_inputs(_), ChainItems(_)
process_model_inputs(x) ==
    CASE x.type = "str"     -> [status |-> "ok", value |-> <<Tokenizer(x.words)>>]
      [] x.type = "mapping" -> [status |-> "ok", value |-> SplitMapping(x)]
      [] x.type = "list"    -> ChainItems(x.items)
      [] OTHER              -> [status |-> "ValueError", value |-> <<>>]

ChainItems(items) ==
    IF items = <<>> THEN [status |-> "ok", value |-> <<>>]
    ELSE LET h == process_model_inputs(Head(items))
         IN  IF h.status # "ok" THEN h
             ELSE LET t == ChainItems(Tail(items))
                  IN  IF t.status # "ok" THEN t
                      ELSE [status |-> "ok", value |-> h.value \o t.value]

\* the pending call process_model_inputs(model_inputs) returns or raises
ProcessModelInputsCall ==
    /\ rawInputs.type # "none"
    /\ ex = NoEx
    /\ standardized.status = "none"
    /\ standardized' = process_model_inputs(rawInputs)
    /\ UNCHANGED <<rawInputs, fanVars, occVars, interpVars, targetVars, callVars, sobolVars, iterVars, dispatchVars, exVars>>

\* state at the call process_model_inputs(model_inputs)
InitStandardize ==
    /\ FanIdle
    /\ OccIdle
    /\ InterpIdle
    /\ TargetIdle
    /\ CallIdle
    /\ SobolIdle
    /\ IterIdle
    /\ DispatchIdle
    /\ ExIdle
    /\ rawInputs \in RawInputValues
    /\ standardized = NoStandardized

NextStandardize == ProcessModelInputsCall

SpecStandardize == InitStandardize /\ [][NextStandardize]_vars

\* ------------------------------------------------------------------------
\* attributions/base.py: AttributionExplainer.explain for classification
\* ------------------------------------------------------------------------
\* the device argument of the constructor and what torch.cuda.is_available() says
DeviceArgs == {"None", "cpu", "cuda"}

\* variant of ResolveDevice that falls back to the CPU whatever is available
ResolveDevice_cpu(device, cuda_available) ==
    IF device = "None" THEN "cpu" ELSE device

\* self.device after the first two lines of explain
ResolveDevice(device, cuda_available) ==
    IF device = "None" THEN (IF cuda_available THEN "cuda" ELSE "cpu") ELSE device

\* the granularity levels tried
Granularities == {"TOKEN", "ALL_TOKENS"}

\* raw inputs handed to explain
ExRawInputs ==
    LET text == [type |-> "str", words |-> <<"unhappy", "it">>]
    IN  {text, [type |-> "int"]}
        \cup {BatchMapping(n) : n \in 1..MaxBatch}
        \cup ListsOf({text, BatchMapping(MaxBatch), [type |-> "int"]})

\* targets handed to explain: none, or a tensor of class indices
ExTargetArgs ==
    {NoneValue,
     Tensor(<<>>, "int64", <<1>>),
     Tensor(<<2>>, "int64", <<0, 1>>),
     Tensor(<<1, 1>>, "int64", <<1>>),
     Tensor(<<2, 1>>, "int64", <<0, 1>>),
     Tensor(<<1, 1, 1>>, "int64", <<0>>)}

\* the statements of explain in program order; the value after the last is the return
ExStepOrder_swapped ==
    <<"device", "standardize", "targets", "scoring", "masks", "decompose", "aggregate",
      "assemble", "returned">>

ExStepOrder ==
    <<"device", "standardize", "targets", "scoring", "masks", "aggregate", "decompose",
      "assemble", "returned">>

\* the statement that follows statement pc
StepAfter(pc) ==
    LET i == CHOOSE k \in 1..Len(ExStepOrder) : ExStepOrder[k] = pc
    IN  ExStepOrder[i + 1]

\* an exception leaves explain: no statement after it runs
Failed(e, err) == [e EXCEPT !.pc = "failed", !.error = err]

\* the logits (1, c) the model gives for one row of token ids
RowLogits(ids) == <<ids[2], 12>>

\* inference_wrapper.get_logits on a mapping: one row of logits per sample
BatchLogits(m) ==
    LET n == Len(m.input_ids)
    IN  Tensor(<<n, NumClasses>>, "float32",
               [j \in 1..(n * NumClasses) |->
                   RowLogits(m.input_ids[((j - 1) \div NumClasses) + 1])[((j - 1) % NumClasses) + 1]])

\* logits.argmax(dim=-1) over the stacked logits (m, 1, c): shape (m, 1)
ArgmaxTargets(inputs) ==
    Tensor(<<Len(inputs), 1>>, "int64",
           [i \in 1..Len(inputs) |-> ArgmaxRow(BatchLogits(inputs[i]), 1)])

\* variant of ResolveTargets that takes the argmax whatever was given
ResolveTargets_always_argmax(targets_arg, inputs) == ArgmaxTargets(inputs)

\* `if targets is None: targets = logits.argmax(dim=-1)`
ResolveTargets(targets_arg, inputs) ==
    IF targets_arg = NoneValue THEN ArgmaxTargets(inputs) ELSE targets_arg

\* ClassificationInferenceWrapper.process_target(targets, logits.shape[:-1]):
\* the targets broadcast to one row per input; a leading dimension that is
\* neither 1 nor the number of inputs is a dimensionality error
process_target_static(targets, m) ==
    LET r == process_target(targets, Full(<<m, NumClasses>>, 0, "float32"))
    IN  IF r.status # "ok" THEN [status |-> r.status, value |-> NoneValue]
        ELSE IF r.value.shape[1] # m THEN [status |-> "ValueError", value |-> NoneValue]
        ELSE [status |-> "ok", value |-> r.value]

\* perturbator.perturb(m): the batch of variants of one input, each with one
\* position replaced by the mask token, and the mask telling which
perturb_mapping(m) ==
    LET ids == m.input_ids[1]
        L == Len(ids)
    IN  <<[type |-> "mapping",
           input_ids |-> [j \in 1..L |-> [ids EXCEPT ![j] = TokenToId(MaskToken)]],
           attention_mask |-> [j \in 1..L |-> m.attention_mask[1]]],
          [j \in 1..L |-> [k \in 1..L |-> IF j = k THEN 1 ELSE 0]]>>

\* variant of PerturbationSource that perturbs the inputs in reverse order
PerturbationSource_reversed(inputs) ==
    [i \in 1..Len(inputs) |-> perturb_mapping(inputs[Len(inputs) + 1 - i])]

\* the generator (self.perturbator.perturb(m) for m in model_inputs_to_explain):
\* element i is produced, and the perturbator invoked, when the generator is
\* advanced to it
PerturbationSource(inputs) == [i \in 1..Len(inputs) |-> perturb_mapping(inputs[i])]

\* one element of get_gradients over an iterable: zip(model_inputs, targets,
\* strict=True) pairs input number idx (from 0) with row idx of the targets
GradientsOfElement(batch, targets, idx) ==
    IF idx >= targets.shape[1] THEN [status |-> "ValueError", value |-> NoneValue]
    ELSE [status |-> "ok",
          value |-> [type |-> "gradients", inputs |-> batch.input_ids,
                     target |-> TensorAt(targets, idx)]]

\* the score of perturbed batch number idx (from 0)
ScoreOfElement(use_gradient, batch, targets, idx) ==
    IF use_gradient THEN GradientsOfElement(batch, targets, idx)
    ELSE TargetedLogitsOfElement(BatchLogits(batch), targets, idx)

\* self.aggregator(score.unsqueeze(0), mask).squeeze(0)
Aggregator(score, mask) == [type |-> "attribution", scores |-> score, mask |-> mask]

\* variant of Contributions that aggregates every score with the first mask
Contributions_first_mask(scores, masks) ==
    [i \in 1..Len(scores) |-> Aggregator(scores[i], masks[1])]

\* the list built from zip(scores, masks, strict=True)
Contributions(scores, masks) ==
    [i \in 1..Len(scores) |-> Aggregator(scores[i], masks[i])]

\* the special tokens of the tokenizer
SpecialIds == {PadTokenId, ClsTokenId, SepTokenId}

\* GranularityLevel.get_decomposition(t, level)[0]: the groups of token ids,
\* one per unit; only ALL_TOKENS keeps the special tokens
get_decomposition(m, level) ==
    LET ids == m.input_ids[1]
        kept == IF level = "ALL_TOKENS" THEN ids
                ELSE SelectSeq(ids, LAMBDA id : id \notin SpecialIds)
    IN  <<[j \in 1..Len(kept) |-> <<kept[j]>>]>>

\* tokenizer.decode(token_ids, skip_special_tokens): the tokens of the text
RECURSIVE decode(_, _)
decode(token_ids, skip_special_tokens) ==
    IF token_ids = <<>> THEN <<>>
    ELSE LET id == Head(token_ids)
             tok == CASE id = ClsTokenId -> "[CLS]"
                      [] id = SepTokenId -> "[SEP]"
                      [] id = 11 -> "cat"
                      [] id = 12 -> "un"
                      [] id = 13 -> "##happy"
                      [] id = 14 -> "it"
                      [] OTHER -> "[UNK]"
         IN  (IF skip_special_tokens /\ id \in SpecialIds THEN <<>> ELSE <<tok>>)
             \o decode(Tail(token_ids), skip_special_tokens)

\* the list of AttributionOutput built from zip(contributions, decompositions, strict=True)
Outputs(contributions, decompositions, level) ==
    [i \in 1..Len(contributions) |->
        [attributions |-> contributions[i],
         elements |-> [g \in 1..Len(decompositions[i][1]) |->
                          decode(decompositions[i][1][g], level # "ALL_TOKENS")]]]

\* lines 200-202: resolve the device and move the inference wrapper to it
ExDeviceResolution ==
    /\ ex.pc = "device"
    /\ LET dev == ResolveDevice(ex.device, ex.cuda_available)
       IN  ex' = [ex EXCEPT !.pc = StepAfter("device"), !.device = dev,
                            !.moves = @ + 1, !.wrapper_device = dev]
    /\ phases' = Append(phases, "DEVICE_RESOLUTION")
    /\ UNCHANGED <<fanVars, occVars, interpVars, targetVars, callVars, sobolVars, iterVars, dispatchVars, stdVars>>

\* lines 204-208: standardize the inputs and settle the pad token
ExStandardize ==
    /\ ex.pc = "standardize"
    /\ LET r == process_model_inputs(rawInputs)
       IN  /\ standardized' = r
           /\ ex' = IF r.status = "ok"
                    THEN [ex EXCEPT !.pc = StepAfter("standardize"), !.pad_token_id = PadTokenId]
                    ELSE Failed(ex, r.status)
    /\ phases' = Append(phases, "INPUT_STANDARDIZATION")
    /\ UNCHANGED <<rawInputs, fanVars, occVars, interpVars, targetVars, callVars, sobolVars, iterVars, dispatchVars>>

\* lines 210-214: the logits of every input, the targets (their argmax when
\* none were given) normalised against them, and the two cursors over the
\* perturbation generator, none of which has been advanced
ExTargetResolution ==
    /\ ex.pc = "targets"
    /\ phases' = Append(phases, "TARGET_RESOLUTION")
    /\ LET inputs == standardized.value
           m == Len(inputs)
           given == ResolveTargets(ex.targets_arg, inputs)
           r == process_target_static(given, m)
       IN  IF m = 0
           THEN \* torch.stack of an empty list
                /\ ex' = Failed(ex, "RuntimeError")
                /\ UNCHANGED fanVars
           ELSE IF r.status # "ok"
           THEN /\ ex' = Failed([ex EXCEPT !.inferences = @ + m], r.status)
                /\ UNCHANGED fanVars
           ELSE /\ ex' = [ex EXCEPT !.pc = StepAfter("targets"), !.inferences = @ + m,
                                    !.targets = r.value]
                /\ source' = PerturbationSource(inputs)
                /\ genPos' = 0
                /\ buffer' = <<>>
                /\ position' = [c \in Cursors |->
                                   CASE c = "A" -> SubGenerator(IntPos(0)).position
                                     [] c = "B" -> SubGenerator(IntPos(1)).position
                                     [] OTHER   -> WholePos]
                /\ index' = [c \in Cursors |-> 0]
                /\ out' = [c \in Cursors |-> <<>>]
                /\ last' = NoLast
    /\ UNCHANGED <<occVars, interpVars, targetVars, callVars, sobolVars, iterVars, dispatchVars, stdVars>>

\* lines 217-222, the scoring generator asks the first cursor for the next
\* perturbed batch: the perturbator runs for that input, or the cursor is
\* exhausted and the list of scores is complete
ExPullPerturbed ==
    /\ ex.pc = "scoring"
    /\ ex.pending = <<>>
    /\ Advance("A")
    /\ IF last'.result = "value"
       THEN /\ ex' = [ex EXCEPT !.pending = last'.value]
            /\ phases' = IF genPos' > genPos THEN Append(phases, "PERTURBATION") ELSE phases
       ELSE IF last'.result = "StopIteration"
       THEN /\ ex' = IF ex.use_gradient /\ ex.targets.shape[1] > Len(ex.scores)
                     THEN Failed(ex, "ValueError")
                     ELSE [ex EXCEPT !.pc = StepAfter("scoring")]
            /\ UNCHANGED phases
       ELSE /\ ex' = Failed(ex, last'.result)
            /\ UNCHANGED phases
    /\ UNCHANGED <<occVars, interpVars, targetVars, callVars, sobolVars, iterVars, dispatchVars, stdVars>>

\* lines 217-222, the scoring generator runs the model on the batch it pulled
\* and yields its score
ExScore ==
    /\ ex.pc = "scoring"
    /\ ex.pending # <<>>
    /\ LET r == ScoreOfElement(ex.use_gradient, ex.pending[1], ex.targets, Len(ex.scores))
       IN  ex' = IF r.status = "ok"
                 THEN [ex EXCEPT !.pending = <<>>, !.inferences = @ + 1,
                                 !.scores = Append(@, r.value)]
                 ELSE Failed([ex EXCEPT !.inferences = @ + 1], r.status)
    /\ phases' = Append(phases, "SCORING")
    /\ UNCHANGED <<fanVars, occVars, interpVars, targetVars, callVars, sobolVars, iterVars, dispatchVars, stdVars>>

\* line 225, one step of list(mask_generator): the second cursor gives its
\* next mask, or is exhausted and the list of masks is complete
ExCollectMask ==
    /\ ex.pc = "masks"
    /\ Advance("B")
    /\ ex' = IF last'.result = "value" THEN [ex EXCEPT !.masks = Append(@, last'.value[1])]
             ELSE IF last'.result = "StopIteration" THEN [ex EXCEPT !.pc = StepAfter("masks")]
             ELSE Failed(ex, last'.result)
    /\ UNCHANGED <<phases, occVars, interpVars, targetVars, callVars, sobolVars, iterVars, dispatchVars, stdVars>>

\* lines 230-233: one contribution per (score, mask) pair
ExAggregate ==
    /\ ex.pc = "aggregate"
    /\ ex' = IF Len(ex.scores) # Len(ex.masks)
             THEN Failed(ex, "ValueError")
             ELSE [ex EXCEPT !.pc = StepAfter("aggregate"),
                             !.contributions = Contributions(ex.scores, ex.masks)]
    /\ phases' = Append(phases, "AGGREGATION")
    /\ UNCHANGED <<fanVars, occVars, interpVars, targetVars, callVars, sobolVars, iterVars, dispatchVars, stdVars>>

\* lines 237-239: one decomposition per input to explain
ExDecompose ==
    /\ ex.pc = "decompose"
    /\ ex' = [ex EXCEPT !.pc = StepAfter("decompose"),
                        !.decompositions =
                            [i \in 1..Len(standardized.value) |->
                                get_decomposition(standardized.value[i], ex.granularity_level)]]
    /\ phases' = Append(phases, "DECOMPOSITION")
    /\ UNCHANGED <<fanVars, occVars, interpVars, targetVars, callVars, sobolVars, iterVars, dispatchVars, stdVars>>

\* lines 242-253: the outputs are built and returned
ExAssemble ==
    /\ ex.pc = "assemble"
    /\ ex' = IF Len(ex.contributions) # Len(ex.decompositions)
             THEN Failed(ex, "ValueError")
             ELSE [ex EXCEPT !.pc = StepAfter("assemble"),
                             !.outputs = Outputs(ex.contributions, ex.decompositions,
                                                 ex.granularity_level)]
    /\ phases' = Append(phases, "OUTPUT_ASSEMBLY")
    /\ UNCHANGED <<fanVars, occVars, interpVars, targetVars, callVars, sobolVars, iterVars, dispatchVars, stdVars>>

\* state at the call explain(model_inputs, targets) of a classification explainer
InitExplain ==
    /\ FanIdle
    /\ OccIdle
    /\ InterpIdle
    /\ TargetIdle
    /\ CallIdle
    /\ SobolIdle
    /\ IterIdle
    /\ DispatchIdle
    /\ rawInputs \in ExRawInputs
    /\ standardized = NoStandardized
    /\ \E device \in DeviceArgs, cuda_available \in BOOLEAN, use_gradient \in BOOLEAN,
          level \in Granularities, targets \in ExTargetArgs :
         ex = [pc |-> "device", configured |-> device, device |-> device,
               cuda_available |-> cuda_available, use_gradient |-> use_gradient,
               granularity_level |-> level, targets_arg |-> targets,
               moves |-> 0, wrapper_device |-> "unset", pad_token_id |-> "unset",
               inferences |-> 0, targets |-> NoneValue, pending |-> <<>>,
               scores |-> <<>>, masks |-> <<>>, contributions |-> <<>>,
               decompositions |-> <<>>, outputs |-> <<>>, error |-> ""]
    /\ phases = <<>>

NextExplain ==
    \/ ExDeviceResolution
    \/ ExStandardize
    \/ ExTargetResolution
    \/ ExPullPerturbed
    \/ ExScore
    \/ ExCollectMask
    \/ ExAggregate
    \/ ExDecompose
    \/ ExAssemble

SpecExplain == InitExplain /\ [][NextExplain]_vars

\* ------------------------------------------------------------------------
\* attributions/base.py: MultitaskExplainerMixin
\* ------------------------------------------------------------------------
\* model.__class__.__name__ as the sequence of its capitalised parts
NameParts == {"Bert", "For", "Sequence", "Classification", "Causal", "LM", "Head", "Model"}
ClassNames == UNION {[1..n -> NameParts] : n \in 0..MaxNameParts}

\* variant of EndsWith that finds the suffix anywhere in the name
EndsWith_anywhere(name, suffix) ==
    \E i \in 0..(Len(name) - Len(suffix)) : SubSeq(name, i + 1, i + Len(suffix)) = suffix

\* str.endswith
EndsWith(name, suffix) ==
    /\ Len(name) >= Len(suffix)
    /\ SubSeq(name, Len(name) - Len(suffix) + 1, Len(name)) = suffix

\* MultitaskExplainerMixin.__new__ called on the mixin class itself: the class
\* the explainer is created from, or the error raised
MultitaskNew(name) ==
    IF EndsWith(name, <<"For", "Sequence", "Classification">>)
    THEN [status |-> "returned", variant |-> "Classification", bases |-> <<"cls", "ClassificationAttributionExplainer">>,
          created |-> TRUE, error |-> ""]
    ELSE IF EndsWith(name, <<"For", "Causal", "LM">>) \/ EndsWith(name, <<"LM", "Head", "Model">>)
    THEN [status |-> "returned", variant |-> "Generation", bases |-> <<"cls", "GenerationAttributionExplainer">>,
          created |-> TRUE, error |-> ""]
    ELSE [status |-> "raised", variant |-> "", bases |-> <<>>, created |-> FALSE,
          error |-> "NotImplementedError"]

\* the pending construction of a multitask explainer returns or raises
MultitaskNewCall ==
    /\ call.op = "MultitaskExplainerMixin.__new__"
    /\ result = NoResult
    /\ result' = MultitaskNew(call.name)
    /\ UNCHANGED <<call, fanVars, occVars, interpVars, targetVars, iterVars, dispatchVars,
                   stdVars, exVars, sobolVars>>

\* state at the construction of a multitask explainer over a model
InitMultitask ==
    /\ FanIdle
    /\ OccIdle
    /\ InterpIdle
    /\ TargetIdle
    /\ IterIdle
    /\ DispatchIdle
    /\ StdIdle
    /\ ExIdle
    /\ SobolIdle
    /\ \E name \in ClassNames : call = [op |-> "MultitaskExplainerMixin.__new__", name |-> name]
    /\ result = NoResult

NextMultitask == MultitaskNewCall

SpecMultitask == InitMultitask /\ [][NextMultitask]_vars

\* ------------------------------------------------------------------------
\* attributions/perturbations/random_perturbation.py
\* ------------------------------------------------------------------------
\* numbers of [0, 1] are counted in steps of 1/RandGrid: torch.rand draws one of
\* 0 .. RandGrid - 1 steps, a perturb_probability may also be 1 or more
RandGrid == 3
RandDraws == 0..(RandGrid - 1)
PerturbProbabilities == 0..(RandGrid + 1)

\* variant of RandBelow that also masks a draw equal to the probability
RandBelow_or_equal(r, prob) == IF r <= prob THEN 1 ELSE 0

\* one entry of (rands < self.perturb_probability).float()
RandBelow(r, prob) == IF r < prob THEN 1 ELSE 0

\* RandomMaskedTokenPerturbator.get_mask, given what torch.rand((p, l)) drew
get_mask(n_perturbations, mask_dim, perturb_probability, rands) ==
    Tensor(<<n_perturbations, mask_dim>>, "float32",
           [j \in 1..(n_perturbations * mask_dim) |-> RandBelow(rands.data[j], perturb_probability)])

\* the pending call get_mask(mask_dim) returns
GetMaskCall ==
    /\ call.op = "get_mask"
    /\ result = NoResult
    /\ result' = [status |-> "returned",
                  value |-> get_mask(call.n_perturbations, call.mask_dim,
                                     call.perturb_probability, call.rands)]
    /\ UNCHANGED <<call, fanVars, occVars, interpVars, targetVars, iterVars, dispatchVars,
                   stdVars, exVars, sobolVars>>

\* state at a call get_mask(mask_dim) of a random perturbator, with the
\* numbers torch.rand is about to draw
InitRandom ==
    /\ FanIdle
    /\ OccIdle
    /\ InterpIdle
    /\ TargetIdle
    /\ IterIdle
    /\ DispatchIdle
    /\ StdIdle
    /\ ExIdle
    /\ SobolIdle
    /\ \E p \in 0..MaxPerturbations, l \in 0..MaxMaskDim, prob \in PerturbProbabilities :
         \E draws \in [1..(p * l) -> RandDraws] :
            call = [op |-> "get_mask", n_perturbations |-> p, mask_dim |-> l,
                    perturb_probability |-> prob,
                    rands |-> Tensor(<<p, l>>, "float32", draws)]
    /\ result = NoResult

NextRandom == GetMaskCall

SpecRandom == InitRandom /\ [][NextRandom]_vars

\* ------------------------------------------------------------------------
\* attributions/methods/sobol_attribution.py
\* ------------------------------------------------------------------------
SobolIndicesOrders == {"FIRST_ORDER", "TOTAL_ORDER"}
SequenceSamplers == {"SOBOL", "HALTON", "LatinHypercube"}

\* variant of SobolTokenPerturbator that leaves the order at its default
SobolTokenPerturbator_default_order(n_token_perturbations, sobol_indices_order, sampler) ==
    [n_token_perturbations |-> n_token_perturbations, sobol_indices_order |-> "FIRST_ORDER",
     sampler |-> sampler]

\* the perturbator SobolAttribution.__init__ builds from its arguments
SobolTokenPerturbator(n_token_perturbations, sobol_indices_order, sampler) ==
    [n_token_perturbations |-> n_token_perturbations, sobol_indices_order |-> sobol_indices_order,
     sampler |-> sampler]

\* 1 - x for a number counted in steps of 1/RandGrid
Complement(x) == RandGrid - x

\* SobolTokenPerturbator.get_mask(mask_dim), given the base design (k rows of
\* l numbers) its sampler produced: l + 1 blocks of k rows, block 0 the base
\* design, block i with column i - 1 complemented (FIRST_ORDER) or with every
\* other column complemented (TOTAL_ORDER)
sobol_get_mask(pert, mask_dim, base) ==
    LET k == pert.n_token_perturbations
        l == mask_dim
        entry(r, c) ==
            LET block == (r - 1) \div k
                a == base[((r - 1) % k) + 1][c]
            IN  IF block = 0 THEN a
                ELSE IF pert.sobol_indices_order = "FIRST_ORDER"
                THEN (IF c = block THEN Complement(a) ELSE a)
                ELSE (IF c = block THEN a ELSE Complement(a))
    IN  Tensor(<<(l + 1) * k, l>>, "float32",
               [j \in 1..((l + 1) * k * l) |-> entry(((j - 1) \div l) + 1, ((j - 1) % l) + 1)])

\* the pending call get_mask(mask_dim) of the explainer's perturbator returns
SobolGetMaskCall ==
    /\ call.op = "sobol_get_mask"
    /\ result = NoResult
    /\ result' = [status |-> "returned",
                  value |-> sobol_get_mask(SobolTokenPerturbator(call.n_token_perturbations,
                                                                 call.sobol_indices_order,
                                                                 call.sampler),
                                           call.mask_dim, call.base)]
    /\ UNCHANGED <<call, fanVars, occVars, interpVars, targetVars, iterVars, dispatchVars,
                   stdVars, exVars, sobolVars>>

\* state at a call get_mask(mask_dim) of the perturbator of a SobolAttribution,
\* with the base design its sampler is about to produce
InitSobolMask ==
    /\ FanIdle
    /\ OccIdle
    /\ InterpIdle
    /\ TargetIdle
    /\ IterIdle
    /\ DispatchIdle
    /\ StdIdle
    /\ ExIdle
    /\ SobolIdle
    /\ \E k \in 1..MaxTokenPerturbations, l \in 1..MaxMaskDim, order \in SobolIndicesOrders,
          sampler \in SequenceSamplers :
         \E base \in [1..k -> [1..l -> RandDraws]] :
            call = [op |-> "sobol_get_mask", n_token_perturbations |-> k, mask_dim |-> l,
                    sobol_indices_order |-> order, sampler |-> sampler, base |-> base]
    /\ result = NoResult

NextSobolMask == SobolGetMaskCall

SpecSobolMask == InitSobolMask /\ [][NextSobolMask]_vars

\* ------------------------------------------------------------------------
\* attributions/methods/sobol_attribution.py: SobolAttribution.__init__
\* ------------------------------------------------------------------------
\* the tokenizer's vocabulary as the sequence of its tokens; the id of a token
\* is its place in the sequence, from 0
ReplaceToken == "[REPLACE]"

\* tokenizer.get_vocab(): the tokens, added ones included
get_vocab(v) == {v[i] : i \in 1..Len(v)}

\* tokenizer.add_tokens([tok]): a token already known is not added again
add_tokens(v, tok) == IF tok \in get_vocab(v) THEN v ELSE Append(v, tok)

\* tokenizer.convert_tokens_to_ids(tok) for a token of the vocabulary
convert_token_to_id(v, tok) == (CHOOSE i \in 1..Len(v) : v[i] = tok) - 1

\* variant of NeedsReplaceToken that registers at every construction
NeedsReplaceToken_always(v) == TRUE

\* `if replace_token not in tokenizer.get_vocab():`
NeedsReplaceToken(v) == ReplaceToken \notin get_vocab(v)

\* SobolAttribution(model, tokenizer, ...): the token is registered with the
\* tokenizer and the embedding table resized to len(tokenizer) when the token
\* is missing, then its id goes to the perturbator; what the construction did
\* and handed over is appended to explainers
SobolAttributionInit ==
    /\ Len(explainers) < MaxExplainers
    /\ \E order \in SobolIndicesOrders, sampler \in SequenceSamplers :
         LET needed == NeedsReplaceToken(vocab)
             v == IF needed THEN add_tokens(vocab, ReplaceToken) ELSE vocab
         IN  /\ vocab' = v
             /\ embeddingRows' = IF needed THEN Len(v) ELSE embeddingRows
             /\ explainers' = Append(explainers,
                                     [replace_token_id |-> convert_token_to_id(v, ReplaceToken),
                                      registered |-> needed,
                                      sobol_indices_order |-> order,
                                      sampler |-> sampler])
    /\ UNCHANGED <<fanVars, occVars, interpVars, targetVars, iterVars, dispatchVars, stdVars,
                   exVars, callVars>>

\* the vocabularies a tokenizer comes with: without the token, or with the
\* token already registered at the end or in the middle
InitialVocabs ==
    {<<"[PAD]", "[UNK]", "cat">>,
     <<"[PAD]", "[UNK]", "cat", "[REPLACE]">>,
     <<"[PAD]", "[REPLACE]", "[UNK]", "cat">>}

\* a tokenizer and a model whose embedding table has a row for every token,
\* possibly more; no explainer constructed yet
InitSobolInit ==
    /\ FanIdle
    /\ OccIdle
    /\ InterpIdle
    /\ TargetIdle
    /\ IterIdle
    /\ DispatchIdle
    /\ StdIdle
    /\ ExIdle
    /\ CallIdle
    /\ vocab \in InitialVocabs
    /\ embeddingRows \in {Len(vocab), Len(vocab) + 1}
    /\ explainers = <<>>

NextSobolInit == SobolAttributionInit

SpecSobolInit == InitSobolInit /\ [][NextSobolInit]_vars

\* ------------------------------------------------------------------------
\* classification_inference_wrapper.py: get_gradients
\* ------------------------------------------------------------------------
\* _get_gradients_from_mapping: the jacobian, with respect to the embeddings
\* of the input, of the logits _get_targeted_logits_from_mapping gathers at
\* the targets; the gradient is kept as the input, the targets and the
\* gathered logits it differentiates
get_gradients_from_mapping(x, targets) ==
    LET r == get_targeted_logits_from_mapping(ModelLogits[x], targets)
    IN  IF r.status # "ok"
        THEN [status |-> r.status, value |-> NoneValue]
        ELSE [status |-> "ok",
              value |-> [type |-> "gradients", input |-> x, targets |-> targets,
                         targeted |-> r.value]]

\* variant of ZipStrict that stops at the shorter of the two
ZipStrict_truncating(m, rows, idx) ==
    IF idx < m /\ idx < rows THEN "pair" ELSE "stop"

\* zip(model_inputs, targets, strict=True) asked for pair number idx (from 0)
\* of m inputs and rows target entries
ZipStrict(m, rows, idx) ==
    IF idx < m
    THEN IF idx < rows THEN "pair" ELSE "ValueError"
    ELSE IF idx < rows THEN "ValueError" ELSE "stop"

\* get_gradients called on a single mapping: one tensor
GradientsFromMapping ==
    /\ iterCall.op = "get_gradients"
    /\ iterCall.kind = "mapping"
    /\ iterState.pc = "called"
    /\ LET r == get_gradients_from_mapping(iterCall.inputs[1], iterCall.targets)
       IN  iterState' = [iterState EXCEPT
                            !.pc = IF r.status = "ok" THEN "returned" ELSE "raised",
                            !.inferences = 1,
                            !.outputs = IF r.status = "ok" THEN <<r.value>> ELSE <<>>,
                            !.error = IF r.status = "ok" THEN "" ELSE r.status]
    /\ UNCHANGED <<iterCall, fanVars, occVars, interpVars, targetVars, callVars, sobolVars,
                   dispatchVars, stdVars, exVars>>

\* the consumer asks the generator get_gradients returned for its next
\* element: zip takes the next input and the next entry of the targets along
\* their first axis, and the pair goes through get_gradients again
NextGradient ==
    /\ iterCall.op = "get_gradients"
    /\ iterCall.kind = "iterable"
    /\ iterState.pc \in {"created", "suspended"}
    /\ IF Dim(iterCall.targets) = 0
       THEN \* a 0-d tensor cannot be iterated
            iterState' = [iterState EXCEPT !.pc = "raised", !.requested = @ + 1,
                                           !.error = "TypeError"]
       ELSE LET idx == iterState.consumed
                m == Len(iterCall.inputs)
                z == ZipStrict(m, iterCall.targets.shape[1], idx)
                pulled == IF idx < m THEN idx + 1 ELSE idx
            IN  CASE z = "stop" ->
                       iterState' = [iterState EXCEPT !.pc = "done", !.requested = @ + 1]
                  [] z = "ValueError" ->
                       iterState' = [iterState EXCEPT !.pc = "raised", !.requested = @ + 1,
                                                      !.consumed = pulled, !.error = "ValueError"]
                  [] OTHER ->
                       LET r == get_gradients_from_mapping(iterCall.inputs[idx + 1],
                                                           TensorAt(iterCall.targets, idx))
                       IN  iterState' = [iterState EXCEPT
                                            !.pc = IF r.status = "ok" THEN "suspended" ELSE "raised",
                                            !.requested = @ + 1,
                                            !.consumed = pulled,
                                            !.inferences = @ + 1,
                                            !.outputs = IF r.status = "ok" THEN Append(@, r.value) ELSE @,
                                            !.error = IF r.status = "ok" THEN "" ELSE r.status]
    /\ UNCHANGED <<iterCall, fanVars, occVars, interpVars, targetVars, callVars, sobolVars,
                   dispatchVars, stdVars, exVars>>

\* state at a call of get_gradients(model_inputs, targets)
InitGradients ==
    /\ FanIdle
    /\ OccIdle
    /\ InterpIdle
    /\ TargetIdle
    /\ CallIdle
    /\ SobolIdle
    /\ DispatchIdle
    /\ StdIdle
    /\ ExIdle
    /\ \E kind \in {"mapping", "iterable"}, inputs \in InputSeqs, targets \in TargetValues :
         /\ kind = "mapping" => Len(inputs) = 1
         /\ iterCall = [op |-> "get_gradients", kind |-> kind, inputs |-> inputs, targets |-> targets]
    /\ iterState = [NoIterState EXCEPT !.pc = "called"]

NextGradients == GradientsFromMapping \/ EntryFromIterable \/ NextGradient

SpecGradients == InitGradients /\ [][NextGradients]_vars

\* ------------------------------------------------------------------------
\* attributions/base.py: GenerationAttributionExplainer
\* ------------------------------------------------------------------------
\* the members of GranularityLevel
GranularityLevels == {"TOKEN", "WORD", "SENTENCE", "ALL_TOKENS", "DEFAULT"}

\* how the caller of explain passes the generation arguments: none at all,
\* as the keyword generation_kwargs, or as keywords of their own
KwargsForms == {"none", "generation_kwargs", "max_new_tokens"}

\* variant of AliasGranularity that keeps TOKEN
AliasGranularity_none(level) == level

\* `if self.granularity_level == GranularityLevel.TOKEN:
\*      self.granularity_level = GranularityLevel.ALL_TOKENS`
AliasGranularity(level) == IF level = "TOKEN" THEN "ALL_TOKENS" ELSE level

\* skip_special_tokens=self.granularity_level is not GranularityLevel.ALL_TOKENS
SkipSpecialTokens(level) == level # "ALL_TOKENS"

\* inference_wrapper.get_inputs_to_explain_and_targets: each input followed
\* by the tokens the model generated for it
GeneratedIds == <<14>>
InputsWithContinuation(inputs) ==
    [i \in 1..Len(inputs) |->
        [type |-> "mapping", input_ids |-> <<inputs[i].input_ids[1] \o GeneratedIds>>,
         attention_mask |-> <<inputs[i].attention_mask[1] \o Repeat(1, Len(GeneratedIds))>>]]

\* tokenizer([tokenizer.decode(input_ids[0])], ...): the text of all the ids,
\* special tokens included, tokenized again between its own special tokens
Retokenize(m) ==
    LET ids == <<ClsTokenId>> \o m.input_ids[1] \o <<SepTokenId>>
    IN  [type |-> "mapping", input_ids |-> <<ids>>, attention_mask |-> <<Repeat(1, Len(ids))>>]

\* the labels explain builds for one input to explain: its decomposition at
\* the level, each unit decoded
LabelsOf(m, level) ==
    LET groups == get_decomposition(m, level)[1]
    IN  [g \in 1..Len(groups) |-> decode(groups[g], SkipSpecialTokens(level))]

\* explain of a generation explainer as far as granularity and labels go:
\* the call of process_inputs_to_explain_and_targets, which settles the
\* granularity level, then the decompositions and the decoded labels
GenerationExplain(level, kwargs, targets, inputs) ==
    IF kwargs # "generation_kwargs"
    THEN \* process_inputs_to_explain_and_targets(model_inputs, targets, **generation_kwargs)
         \* cannot bind its parameter generation_kwargs
         [status |-> "raised", error |-> "TypeError", granularity_level |-> level, labels |-> <<>>]
    ELSE IF targets # "None"
    THEN \* the mappings built from embeddings have no "input_ids"
         [status |-> "raised", error |-> "KeyError", granularity_level |-> level, labels |-> <<>>]
    ELSE LET to_explain == [i \in 1..Len(inputs) |-> Retokenize(InputsWithContinuation(inputs)[i])]
             aliased == AliasGranularity(level)
         IN  [status |-> "returned", error |-> "", granularity_level |-> aliased,
              labels |-> [i \in 1..Len(to_explain) |-> LabelsOf(to_explain[i], aliased)]]

\* the pending explain call of a generation explainer returns or raises
GenerationExplainCall ==
    /\ call.op = "generation_explain"
    /\ result = NoResult
    /\ result' = GenerationExplain(call.granularity_level, call.kwargs, call.targets, call.inputs)
    /\ UNCHANGED <<call, fanVars, occVars, interpVars, targetVars, iterVars, dispatchVars,
                   stdVars, exVars, sobolVars>>

\* the standardized inputs of the generation calls
GenerationInputs ==
    UNION {[1..n -> {BatchMapping(1), Tokenizer(<<"cat">>), Tokenizer(<<"unhappy">>)}] : n \in 1..MaxItems}

\* state at an explain call of a generation explainer
InitGeneration ==
    /\ FanIdle
    /\ OccIdle
    /\ InterpIdle
    /\ TargetIdle
    /\ IterIdle
    /\ DispatchIdle
    /\ StdIdle
    /\ ExIdle
    /\ SobolIdle
    /\ \E level \in GranularityLevels, kwargs \in KwargsForms, targets \in {"None", "str"},
          inputs \in GenerationInputs :
         call = [op |-> "generation_explain", granularity_level |-> level, kwargs |-> kwargs,
                 targets |-> targets, inputs |-> inputs]
    /\ result = NoResult

NextGeneration == GenerationExplainCall

SpecGeneration == InitGeneration /\ [][NextGeneration]_vars

\* ------------------------------------------------------------------------
\* Properties of the fan-out (Spec)
\* ------------------------------------------------------------------------
Firsts == [i \in 1..Len(source) |-> source[i][1]]
Seconds == [i \in 1..Len(source) |-> source[i][2]]

IsPrefix(s, t) == Len(s) <= Len(t) /\ \A i \in 1..Len(s) : s[i] = t[i]

Drained(c) == last.cursor = c /\ last.result = "StopIteration"

\* C1: under every interleaving of advances the A-cursor has returned a prefix
\* of the first components and the B-cursor a prefix of the second components,
\* in source order, and a cursor that has been drained has returned all n.
C1_FanoutMatchesSource ==
    /\ IsPrefix(out["A"], Firsts)
    /\ IsPrefix(out["B"], Seconds)
    /\ Len(out["A"]) = index["A"]
    /\ Len(out["B"]) = index["B"]
    /\ Drained("A") => out["A"] = Firsts
    /\ Drained("B") => out["B"] = Seconds

C1_Witness ==
    /\ Len(source) = MaxN
    /\ source[1] # source[2]
    /\ out["A"] = Firsts
    /\ out["B"] = Seconds
    /\ Drained("B")

MaxIndex == CHOOSE m \in {index[c] : c \in Cursors} : \A c \in Cursors : index[c] <= m

BufferAppendOnly == Len(buffer') >= Len(buffer) /\ SubSeq(buffer', 1, Len(buffer)) = buffer

\* C2: the number of pairs taken from the producer equals the buffer length,
\* which equals the largest read index of any cursor; the buffer is the prefix
\* of the source of that length (each index produced once, none ahead of the
\* furthest request, never more than n) and it only ever grows by appending.
C2_BufferTracksFurthestRequest ==
    /\ [](/\ genPos = Len(buffer)
          /\ Len(buffer) = MaxIndex
          /\ Len(buffer) <= Len(source)
          /\ buffer = SubSeq(source, 1, Len(buffer)))
    /\ [][BufferAppendOnly /\ genPos' - genPos = Len(buffer') - Len(buffer)]_vars

C2_Witness ==
    /\ Len(buffer) = 2
    /\ Len(source) = MaxN
    /\ index["A"] = 2
    /\ index["B"] = 1
    /\ index["W"] = 0
    /\ last.cursor = "B"

\* C3: an advance fails with StopIteration exactly when the requested index is
\* the buffer length and the producer has yielded all n pairs; a value is only
\* ever returned for an index below n and no request below n fails.
C3_StopIterationOnlyWhenExhausted ==
    /\ last.result = "StopIteration" =>
          /\ last.idx = Len(buffer)
          /\ genPos = Len(source)
          /\ last.idx >= Len(source)
    /\ last.result = "value" => last.idx < Len(source)
    /\ last.result \in {"none", "value", "StopIteration"}

C3_Witness ==
    /\ last.result = "StopIteration"
    /\ last.cursor = "A"
    /\ Len(source) = 2
    /\ out["A"] = Firsts

\* C4 as stated: the k-th element returned by a slice cursor is the buffered
\* entry at buffer index start + (k-1)*step, inside the range [start, stop).
C4_SliceSelectsBufferIndices ==
    \A k \in 1..Len(out["S"]) :
        LET bi == position["S"].start + (k - 1) * position["S"].step
        IN  /\ bi < position["S"].stop
            /\ bi + 1 <= Len(buffer)
            /\ out["S"][k] = buffer[bi + 1]

\* C4 (amended): a slice cursor visits every buffer index 0, 1, 2, ... in
\* order, and its k-th element is the slice of the k-th buffered tuple: the
\* components at tuple positions start, start+step, ... below min(stop, len).
C4_SliceSelectsTupleComponents ==
    /\ Len(out["S"]) = index["S"]
    /\ \A k \in 1..Len(out["S"]) :
        LET t == buffer[k]
            r == out["S"][k]
            p == position["S"]
        IN  /\ \A j \in 1..Len(r) :
                  /\ p.start + (j - 1) * p.step < Min(p.stop, Len(t))
                  /\ r[j] = t[p.start + (j - 1) * p.step + 1]
            /\ p.start + Len(r) * p.step >= Min(p.stop, Len(t))

C4_Witness ==
    /\ position["S"] = SlicePos(1, 2, 1)
    /\ Len(source) = MaxN
    /\ index["S"] = MaxN
    /\ out["S"][1] = <<source[1][2]>>

\* an advance that failed changed neither the buffer, nor the producer's
\* position, nor any read index, nor anything returned so far
FailedAdvanceChangesNothing ==
    last'.result = "StopIteration" => UNCHANGED <<buffer, genPos, index, out, position>>

\* a cursor behind the buffer reads the buffered pair at its index
BufferedPairRead ==
    \A d \in Cursors :
        (last' # last /\ last'.cursor = d /\ index[d] < Len(buffer)) =>
            /\ last'.result = "value"
            /\ last'.value = <<GetPosition(buffer[index[d] + 1], position[d])>>
            /\ index'[d] = index[d] + 1
            /\ buffer' = buffer

\* an advance of cursor c would fail
WouldFail(c) == NeedsFetch(c) /\ ~GeneratorHasNext

\* C28: an advance that fails because the producer is exhausted leaves the
\* shared buffer and every cursor's read index as they were; from then on the
\* buffer keeps every pair of the source, so that another cursor still reads
\* each buffered pair, and the failed advance fails again whenever repeated
C28_FailedAdvanceHasNoEffect ==
    /\ [][FailedAdvanceChangesNothing /\ BufferedPairRead]_vars
    /\ \A c \in Cursors :
          [](Drained(c) => [](WouldFail(c) /\ buffer = source /\ index[c] = Len(buffer)))

\* the A-cursor failed while the B-cursor is still behind the buffer
C28_Witness ==
    /\ Drained("A")
    /\ Len(source) = MaxN
    /\ Len(buffer) = MaxN
    /\ index["B"] = 0
    /\ out["A"] = Firsts

\* ------------------------------------------------------------------------
\* Properties of the occlusion perturbators (SpecOcclusion)
\* ------------------------------------------------------------------------
ZeroRow(l) == [j \in 1..l |-> 0]
Identity(l) == [i \in 1..l |-> [j \in 1..l |-> IF i = j THEN 1 ELSE 0]]

\* C5: for a sequence of l >= 1 units the occlusion mask has l+1 rows and l
\* columns, row 0 all zeros and rows 1..l the l-by-l identity.
C5_OcclusionMaskZeroRowAboveIdentity ==
    perturbed.status = "ok" =>
        LET l == perturbed.units
        IN  /\ Len(perturbed.mask) = l + 1
            /\ \A r \in 1..Len(perturbed.mask) : Len(perturbed.mask[r]) = l
            /\ perturbed.mask = <<ZeroRow(l)>> \o Identity(l)

\* C6: the number of mask rows equals the leading dimension of the returned
\* perturbed batch, and the number of mask columns equals the number of units.
C6_MaskRowsEqualBatchLeadingDim ==
    perturbed.status = "ok" =>
        /\ Len(perturbed.mask) = perturbed.embeddings[1]
        /\ \A r \in 1..Len(perturbed.mask) : Len(perturbed.mask[r]) = perturbed.units

\* the token positions (from 1) of unit i of a text: token i for the token
\* perturbator, the pieces of word i for the word perturbator
UnitPositions(words, i) ==
    IF perturbator.cls = "TokenOcclusionPerturbator"
    THEN {i}
    ELSE LET before == Len(tokenize(SubSeq(words, 1, i - 1)))
         IN  (before + 1)..(before + Len(tokenize(<<words[i]>>)))

\* every variant of a perturbed text is the tokenization of the text with the
\* id of the configured mask value at the positions of its unit
OnlyUnitReplaced(r) ==
    LET original == convert_tokens_to_ids(tokenize(r.inputs))
    IN  \A i \in 1..r.units :
            /\ Len(r.variations[i]) = Len(original)
            /\ \A j \in 1..Len(original) :
                  r.variations[i][j] = IF j \in UnitPositions(r.inputs, i)
                                       THEN TokenToId(perturbator.mask_value)
                                       ELSE original[j]

\* C29: for both occlusion perturbators variant i of a text differs from the
\* tokenization of the text only at the positions of unit i, where it holds
\* the configured mask value (the tokenizer's mask token when none is
\* configured); for a collection of texts the result is the list of the
\* per-text results in input order
C29_OcclusionPlacesMaskValueAtUnit ==
    /\ perturbed.status = "ok" => OnlyUnitReplaced(perturbed)
    /\ perturbed.status = "list" =>
          /\ Len(perturbed.items) = Len(perturbed.inputs)
          /\ \A k \in 1..Len(perturbed.items) :
                /\ perturbed.items[k] = PerturbStr(perturbator, perturbed.inputs[k])
                /\ OnlyUnitReplaced(perturbed.items[k])

\* ------------------------------------------------------------------------
\* Properties of the linear interpolation (SpecInterp)
\* ------------------------------------------------------------------------
PerturbReturned == interpCall.op = "perturb" /\ interpResult.status = "ok"
AdjustDone == interpCall.op = "adjust_baseline" /\ interpResult.status # "none"

\* the baseline value that position i of one sample is interpolated towards
BaselineAt(i) ==
    CASE interpCall.baseline.type = "NoneType" -> 0
      [] interpCall.baseline.type = "tensor"   -> interpCall.baseline.data[i]
      [] OTHER                                 -> interpCall.baseline.data[1]

SampleSize == Prod(Tail(interpCall.inputs.shape))

\* numerator of the interpolated value of sample b (from 1), step k (from 0), position i (from 1)
VariantAt(b, k, i) ==
    interpResult.value.data[((b - 1) * interpCall.n_samples + k) * SampleSize + i]

StepEqualsInput(k) ==
    \A b \in 1..interpCall.inputs.shape[1], i \in 1..SampleSize :
        VariantAt(b, k, i) = interpResult.denom * interpCall.inputs.data[(b - 1) * SampleSize + i]

StepEqualsBaseline(k) ==
    \A b \in 1..interpCall.inputs.shape[1], i \in 1..SampleSize :
        VariantAt(b, k, i) = interpResult.denom * BaselineAt(i)

\* C7 as stated: for every n_samples >= 1 and valid baseline, step 0 equals
\* the input, the last step equals the adjusted baseline, and no mask is returned.
C7_EndpointsForEverySampleCount ==
    PerturbReturned =>
        /\ StepEqualsInput(0)
        /\ StepEqualsBaseline(interpCall.n_samples - 1)
        /\ interpResult.mask = "None"

\* C7 (amended): step 0 always equals the input and no mask is returned; the
\* last step equals the adjusted baseline whenever n_samples >= 2 (a single
\* sample is the input itself).
C7_EndpointsFromTwoSamples ==
    PerturbReturned =>
        /\ StepEqualsInput(0)
        /\ interpCall.n_samples >= 2 => StepEqualsBaseline(interpCall.n_samples - 1)
        /\ interpResult.mask = "None"
        /\ interpResult.value.shape = <<interpCall.inputs.shape[1], interpCall.n_samples>>
                                        \o Tail(interpCall.inputs.shape)

C7_Witness ==
    /\ PerturbReturned
    /\ interpCall.n_samples = MaxSamples
    /\ interpCall.baseline.type = "tensor"
    /\ interpCall.inputs.shape[1] = 2
    /\ \E i \in 1..SampleSize : interpCall.inputs.data[i] # BaselineAt(i)
    /\ \E i \in 1..SampleSize : BaselineAt(i) # 0

AllEqual(t, v) == \A i \in 1..Len(t.data) : t.data[i] = v

\* C8: in every accepted case adjust_baseline returns a tensor of shape
\* inputs.shape[1:]: zeros for None, the constant (in the inputs' dtype) for
\* an int/float, and the baseline itself for a tensor of matching shape and dtype.
C8_AdjustBaselineAccepted ==
    (AdjustDone /\ interpCall.inputs.type = "tensor") =>
        LET b == interpCall.baseline
            x == interpCall.inputs
            r == interpResult
        IN  /\ r.status = "ok" =>
                  /\ r.value.type = "tensor"
                  /\ r.value.shape = SubSeq(x.shape, 2, Len(x.shape))
                  /\ Len(r.value.data) = Prod(SubSeq(x.shape, 2, Len(x.shape)))
            /\ b.type = "NoneType" =>
                  r.status = "ok" /\ AllEqual(r.value, 0) /\ r.value.dtype = x.dtype
            /\ b.type \in {"int", "float"} =>
                  r.status = "ok" /\ AllEqual(r.value, b.data[1]) /\ r.value.dtype = x.dtype
            /\ (b.type = "tensor" /\ b.shape = SubSeq(x.shape, 2, Len(x.shape)) /\ b.dtype = x.dtype) =>
                  r.status = "ok" /\ r.value = b

C8_Witness ==
    /\ AdjustDone
    /\ interpCall.baseline.type = "float"
    /\ interpCall.inputs.type = "tensor"
    /\ interpCall.inputs.shape = <<2, 1, MaxFeat>>
    /\ interpCall.inputs.dtype = "float64"
    /\ interpResult.status = "ok"
    /\ interpResult.value.shape = <<1, MaxFeat>>

\* C9: adjust_baseline raises and returns nothing for invalid arguments: a
\* type error for non-tensor inputs whatever the baseline, a type error for a
\* baseline that is not None, int, float or tensor, a value error for a tensor
\* baseline of another shape (checked first) and for one of another dtype.
C9_AdjustBaselineRejected ==
    AdjustDone =>
        LET b == interpCall.baseline
            x == interpCall.inputs
            r == interpResult
        IN  /\ x.type # "tensor" => r.status = "TypeError" /\ r.why = "inputs"
            /\ (x.type = "tensor" /\ b.type \notin {"NoneType", "int", "float", "tensor"}) =>
                  r.status = "TypeError" /\ r.why = "baseline"
            /\ (x.type = "tensor" /\ b.type = "tensor" /\ b.shape # SubSeq(x.shape, 2, Len(x.shape))) =>
                  r.status = "ValueError" /\ r.why = "shape"
            /\ (x.type = "tensor" /\ b.type = "tensor" /\ b.shape = SubSeq(x.shape, 2, Len(x.shape))
                  /\ b.dtype # x.dtype) =>
                  r.status = "ValueError" /\ r.why = "dtype"
            /\ r.status # "ok" => r.value = NoneValue

C9_Witness ==
    /\ AdjustDone
    /\ interpResult.status = "ValueError"
    /\ interpResult.why = "dtype"
    /\ interpCall.baseline.shape = <<1, MaxFeat>>

\* ------------------------------------------------------------------------
\* Properties of the target normalisation (SpecTarget)
\* ------------------------------------------------------------------------
TargetDone == targetResult.status # "none"

\* entry (row b, column j), both from 1, of a 2-D tensor
At2(t, b, j) == t.data[(b - 1) * t.shape[2] + j]

\* C10: against logits of batch size n, a 0-D target yields shape (n, 1), a
\* 1-D target of length t yields (n, t) with every row equal to the target, a
\* 2-D target (1, t) yields (n, t) with every row equal to its row, and a 2-D
\* target (n, t) is returned unchanged; the target values are never altered.
C10_TargetNormalisation ==
    TargetDone =>
        LET tg == targetCall.target
            n == targetCall.logits.shape[1]
            r == targetResult
        IN  /\ Len(tg.shape) = 0 =>
                  /\ r.status = "ok"
                  /\ r.value.shape = <<n, 1>>
                  /\ \A b \in 1..n : At2(r.value, b, 1) = tg.data[1]
            /\ Len(tg.shape) = 1 =>
                  /\ r.status = "ok"
                  /\ r.value.shape = <<n, tg.shape[1]>>
                  /\ Len(r.value.data) = n * tg.shape[1]
                  /\ \A b \in 1..n, j \in 1..tg.shape[1] : At2(r.value, b, j) = tg.data[j]
            /\ (Len(tg.shape) = 2 /\ tg.shape[1] = 1) =>
                  /\ r.status = "ok"
                  /\ r.value.shape = <<n, tg.shape[2]>>
                  /\ Len(r.value.data) = n * tg.shape[2]
                  /\ \A b \in 1..n, j \in 1..tg.shape[2] : At2(r.value, b, j) = tg.data[j]
            /\ (Len(tg.shape) = 2 /\ tg.shape[1] = n) =>
                  r.status = "ok" /\ r.value = tg
            /\ r.status = "ok" => r.value.dtype = tg.dtype

C10_Witness ==
    /\ TargetDone
    /\ targetCall.target.shape = <<1, MaxTargets>>
    /\ targetCall.target.data[1] # targetCall.target.data[2]
    /\ targetCall.logits.shape[1] = 2
    /\ targetResult.value.shape = <<2, MaxTargets>>

GatherDone == gathered.status # "none"

\* C11: a 2-D target whose leading dimension is neither 1 nor the batch size
\* of the logits fails normalisation with a dimensionality error: it is not
\* returned as a normalised target and it is not used to gather logits.
C11_LeadingDimMismatchRejected ==
    LET tg == targetCall.target
        n == targetCall.logits.shape[1]
        mismatch == Len(tg.shape) = 2 /\ tg.shape[1] \notin {1, n}
    IN  /\ (TargetDone /\ mismatch) =>
              targetResult.status = "ValueError" /\ targetResult.value = NoneValue
        /\ (GatherDone /\ mismatch) =>
              gathered.status = "ValueError" /\ gathered.targets = NoneValue

\* C12: a target with three or more dimensions always fails normalisation
\* with ValueError; a target with 0, 1 or 2 dimensions never does, and a 0-D
\* target is promoted exactly once (1-D and 2-D targets are not promoted).
C12_DimensionalityError ==
    TargetDone =>
        LET d == Len(targetCall.target.shape)
        IN  /\ d >= 3 => targetResult.status = "ValueError" /\ targetResult.value = NoneValue
            /\ d <= 2 => targetResult.status = "ok"
            /\ d = 0 => targetResult.promotions = 1
            /\ d \in {1, 2} => targetResult.promotions = 0

C12_Witness ==
    /\ TargetDone
    /\ targetCall.target.shape = <<2, 1, 1>>
    /\ targetResult.status = "ValueError"

\* C13: for logits (n, c) and a target normalised to (n, t) with entries in
\* 0..c-1, the targeted logits have shape (n, t) and entry (b, j) is
\* logits[b][target[b][j]].
C13_GatherAtTargets ==
    (GatherDone /\ gathered.targets.type = "tensor"
       /\ gathered.targets.shape[1] = targetCall.logits.shape[1]) =>
        LET lg == targetCall.logits
            tn == gathered.targets
            n == lg.shape[1]
            t == tn.shape[2]
        IN  /\ gathered.status = "ok"
            /\ gathered.value.shape = <<n, t>>
            /\ Len(gathered.value.data) = n * t
            /\ \A b \in 1..n, j \in 1..t :
                  At2(gathered.value, b, j) = At2(lg, b, At2(tn, b, j) + 1)

C13_Witness ==
    /\ GatherDone
    /\ gathered.status = "ok"
    /\ targetCall.logits.shape[1] = 2
    /\ targetCall.target.shape = <<2, MaxTargets>>
    /\ At2(targetCall.logits, 1, 1) # At2(targetCall.logits, 2, 1)
    /\ At2(targetCall.logits, 1, 1) # At2(targetCall.logits, 1, 2)
    /\ At2(targetCall.target, 2, 1) = 0
    /\ At2(targetCall.target, 1, 1) = 1

\* ------------------------------------------------------------------------
\* Properties of the inference entry points over iterables (SpecIter)

\* the target the claim pairs with input i (from 1): row i of a 2-D target with
\* more than one row, otherwise the shared target
PerInputTarget(targets, i) ==
    IF Dim(targets) = 2 /\ targets.shape[1] > 1 THEN TensorAt(targets, i - 1) ELSE targets

\* what the single-mapping entry point returns for input x with target tgt
SingleResult(op, x, tgt) ==
    IF op = "get_targets"
    THEN get_targets_from_mapping(ModelLogits[x])
    ELSE get_targeted_logits_from_mapping(ModelLogits[x], tgt).value

\* the iterable call ended: the sequence is exhausted or an element raised
IterEnded == iterCall.kind = "iterable" /\ iterState.pc \in {"done", "raised"}

\* targets an iterable call accepts: none (get_targets) or at most 2-D
IterTargetsUsable == iterCall.targets = NoneValue \/ Dim(iterCall.targets) <= 2

\* a 2-D target with more than one row but fewer rows than there are inputs
IterTargetsShort ==
    /\ iterCall.targets # NoneValue
    /\ Dim(iterCall.targets) = 2
    /\ iterCall.targets.shape[1] > 1
    /\ iterCall.targets.shape[1] < Len(iterCall.inputs)

\* outputs so far are, in input order, the single-mapping results; nothing is
\* inferred before it is requested
IterOutputsMatchSingle ==
    /\ iterCall.kind = "mapping" /\ iterState.pc = "returned" =>
          /\ Len(iterState.outputs) = 1
          /\ iterState.outputs[1] = SingleResult(iterCall.op, iterCall.inputs[1], iterCall.targets)
    /\ iterCall.kind = "iterable" =>
          /\ iterState.inferences <= iterState.requested
          /\ iterState.consumed = iterState.inferences
          /\ Len(iterState.outputs) <= iterState.inferences
          /\ \A i \in 1..Len(iterState.outputs) :
                iterState.outputs[i]
                    = SingleResult(iterCall.op, iterCall.inputs[i], PerInputTarget(iterCall.targets, i))

OutsideDispatchSet ==
    /\ dispatchCall.entry \in Entries
    /\ dispatchCall.entry = "allow_sequences_of" => dispatchCall.types # {}
    /\ Registry(dispatchCall.entry, dispatchCall.types) \cap Bases(dispatchCall.argtype) = {}

\* C15: a call of perturb, get_targets, get_targeted_logits, get_gradients or
\* of a method wrapped by allow_sequences_of with an explicit type list, with
\* an argument outside the registered dispatch set, raises an unsupported-type
\* error at the call, before any inference or perturbation, and is not retried
C15_UnsupportedTypeRaisesAtCall ==
    dispatchResult.status # "none" /\ OutsideDispatchSet =>
        /\ dispatchResult.status = "raised"
        /\ dispatchResult.error \in {"NotImplementedError", "TypeError"}
        /\ dispatchResult.work = 0
        /\ dispatchResult.calls = 1

\* get_gradients was called with an int and the call has raised
C15_Witness ==
    /\ dispatchCall.entry = "get_gradients"
    /\ dispatchCall.argtype = "int"
    /\ OutsideDispatchSet
    /\ dispatchResult.status = "raised"

\* ------------------------------------------------------------------------
\* Properties of input standardization (SpecStandardize)

\* the number of samples in a raw input
RECURSIVE SampleCount(_)
SampleCount(x) ==
    CASE x.type = "str"     -> 1
      [] x.type = "mapping" -> Len(x.attention_mask)
      [] x.type = "list"    ->
            IF x.items = <<>> THEN 0
            ELSE SampleCount(Head(x.items)) + SampleCount([x EXCEPT !.items = Tail(@)])
      [] OTHER              -> 0

\* a raw input of an accepted type all the way down
RECURSIVE Accepted(_)
Accepted(x) ==
    CASE x.type \in {"str", "mapping"} -> TRUE
      [] x.type = "list" -> \A i \in 1..Len(x.items) : Accepted(x.items[i])
      [] OTHER -> FALSE

\* the samples of a raw input, depth-first, each as a mapping of batch size 1
RECURSIVE SamplesInOrder(_)
SamplesInOrder(x) ==
    CASE x.type = "str"     -> <<Tokenizer(x.words)>>
      [] x.type = "mapping" -> [i \in 1..Len(x.attention_mask) |-> RowMapping(x, i)]
      [] x.type = "list"    ->
            IF x.items = <<>> THEN <<>>
            ELSE SamplesInOrder(Head(x.items)) \o SamplesInOrder([x EXCEPT !.items = Tail(@)])
      [] OTHER              -> <<>>

StandardizeDone == rawInputs.type # "none" /\ ex = NoEx /\ standardized.status # "none"

\* C16: process_model_inputs turns any accepted input into the flat list of
\* its samples in original depth-first order, every element a mapping of batch
\* size exactly 1, the length being the total number of samples for every
\* batch size; any other input type raises ValueError
C16_FlatListOfSingleSamples ==
    StandardizeDone =>
        /\ Accepted(rawInputs) =>
              /\ standardized.status = "ok"
              /\ Len(standardized.value) = SampleCount(rawInputs)
              /\ \A i \in 1..Len(standardized.value) :
                    Len(standardized.value[i].attention_mask) = 1
              /\ standardized.value = SamplesInOrder(rawInputs)
        /\ ~Accepted(rawInputs) => standardized.status = "ValueError"

\* ------------------------------------------------------------------------
\* Properties of explain (SpecExplain)

\* the standardized inputs of the call and their number
ExInputs == standardized.value
ExCount == Len(standardized.value)

\* the statements after the scoring of every input
AfterScoring == {"masks", "aggregate", "decompose", "assemble", "returned"}
AfterMasks == {"aggregate", "decompose", "assemble", "returned"}

\* the score of input i (from 1): the score of its perturbed batch at its row of the targets
ExpectedScore(i) ==
    ScoreOfElement(ex.use_gradient, perturb_mapping(ExInputs[i])[1], ex.targets, i - 1).value

\* the labels of input i: its decomposition, decoded unit by unit
ExpectedLabels(i) ==
    LET groups == get_decomposition(ExInputs[i], ex.granularity_level)[1]
    IN  [g \in 1..Len(groups) |-> decode(groups[g], ex.granularity_level # "ALL_TOKENS")]

\* C17: a successful explain returns exactly one output per standardized
\* input, in input order; output i holds the aggregation of score i with mask i
\* and the labels decoded from the decomposition of input i
C17_OneOutputPerInput ==
    ex.pc = "returned" =>
        /\ Len(ex.outputs) = ExCount
        /\ Len(ex.scores) = ExCount
        /\ Len(ex.masks) = ExCount
        /\ Len(ex.decompositions) = ExCount
        /\ \A i \in 1..ExCount :
              /\ ex.outputs[i].attributions
                    = Aggregator(ExpectedScore(i), perturb_mapping(ExInputs[i])[2])
              /\ ex.outputs[i].elements = ExpectedLabels(i)

\* explain returned the outputs of three inputs of two different lengths
C17_Witness ==
    /\ ex.pc = "returned"
    /\ ExCount = 3
    /\ Len(ex.outputs) = 3
    /\ ex.outputs[1].attributions.mask # ex.outputs[2].attributions.mask

\* the phases in the order the claim names them
PhaseOrder ==
    <<"DEVICE_RESOLUTION", "INPUT_STANDARDIZATION", "TARGET_RESOLUTION", "PERTURBATION",
      "SCORING", "AGGREGATION", "DECOMPOSITION", "OUTPUT_ASSEMBLY">>
PhaseRank(ph) == CHOOSE k \in 1..Len(PhaseOrder) : PhaseOrder[k] = ph

\* a failed call has no outputs, a returned call went through every phase
ExEndsCleanly ==
    /\ ex.pc # "returned" => ex.outputs = <<>>
    /\ ex.pc = "failed" => ex.error # ""
    /\ ex.pc = "returned" => {phases[i] : i \in 1..Len(phases)} = {PhaseOrder[k] : k \in 1..Len(PhaseOrder)}

\* C18 as stated: the phases of one explain call are entered in the order
\* device resolution, input standardization, target resolution, perturbation,
\* scoring, aggregation, decomposition, output assembly, each after the one
\* before it is complete for all inputs and none of them twice, and a failure
\* ends the call without outputs
C18_PhasesInOrderOnce ==
    /\ \A i, j \in 1..Len(phases) : i < j => PhaseRank(phases[i]) < PhaseRank(phases[j])
    /\ ExEndsCleanly

\* C18 amended: the same order, except that perturbation and scoring alternate
\* input by input: the perturbation of input i is entered when scoring asks
\* for batch i and is followed by the scoring of input i; every other phase is
\* entered once, after the phase before it is complete for all inputs, and a
\* failure ends the call without outputs
C18_PhasesInOrderScoringInterleaved ==
    /\ \A i, j \in 1..Len(phases) :
          i < j => \/ PhaseRank(phases[i]) < PhaseRank(phases[j])
                   \/ {phases[i], phases[j]} \subseteq {"PERTURBATION", "SCORING"}
    /\ \A i \in 1..Len(phases) :
          /\ phases[i] = "SCORING" => i > 1 /\ phases[i - 1] = "PERTURBATION"
          /\ phases[i] = "PERTURBATION" /\ i < Len(phases) => phases[i + 1] = "SCORING"
    /\ ex.pc \in AfterScoring =>
          Cardinality({i \in 1..Len(phases) : phases[i] = "PERTURBATION"}) = ExCount
    /\ ExEndsCleanly

\* explain returned after explaining more than one input
C18_Witness ==
    /\ ex.pc = "returned"
    /\ ExCount >= 2
    /\ Len(phases) = 6 + 2 * ExCount

\* C19: in an explain call the inference wrapper is moved exactly once, to
\* the resolved device, before any inference of the call; an unconfigured
\* device is resolved to the accelerator when there is one, else to the CPU
C19_MovedOnceBeforeInference ==
    /\ ex.pc = "device" => ex.moves = 0 /\ ex.inferences = 0
    /\ ex.pc \notin {"none", "device"} =>
          /\ ex.moves = 1
          /\ ex.device = (IF ex.configured # "None" THEN ex.configured
                           ELSE IF ex.cuda_available THEN "cuda" ELSE "cpu")
          /\ ex.wrapper_device = ex.device
    /\ ex.pc # "none" /\ ex.inferences > 0 => ex.moves = 1

\* a call without a configured device, on a machine with an accelerator, has
\* run its first inferences
C19_Witness ==
    /\ ex.pc = "scoring"
    /\ ex.configured = "None"
    /\ ex.cuda_available
    /\ ex.wrapper_device = "cuda"
    /\ ex.inferences > 0

\* C20: the perturbator runs once per input, in input order, and only when
\* scoring asks for that input's batch; collecting the masks runs it no
\* further, and mask i is the mask produced together with batch i
C20_PerturbedOncePerInputOnDemand ==
    ex.pc \notin {"none", "device", "standardize", "targets"} /\ standardized.status = "ok" /\ source # <<>> =>
        /\ genPos = Len(buffer)
        /\ genPos <= ExCount
        /\ \A i \in 1..genPos : buffer[i] = perturb_mapping(ExInputs[i])
        /\ genPos <= Len(ex.scores) + 1
        /\ ex.pc = "scoring" => genPos = Len(ex.scores) + Len(ex.pending)
        /\ ex.pc \in AfterScoring => genPos = ExCount
        /\ \A i \in 1..Len(ex.masks) :
              /\ ex.masks[i] = buffer[i][2]
              /\ out["A"][i] = buffer[i][1]
              /\ ex.masks[i] = perturb_mapping(ExInputs[i])[2]
        /\ ex.pc \in AfterMasks => Len(ex.masks) = ExCount

\* the masks of three inputs were collected after three perturbations
C20_Witness ==
    /\ ex.pc = "aggregate"
    /\ ExCount = 3
    /\ genPos = 3
    /\ Len(ex.masks) = 3
    /\ ex.masks[1] # ex.masks[2]

\* the targets of the call are resolved
TargetsResolved == ex.pc \in {"scoring"} \cup AfterScoring

\* C21: in a classification explain call without targets, the target of each
\* input is the index of the largest logit predicted for that unperturbed
\* input; supplied targets are used as given, never replaced by the argmax
C21_ArgmaxOnlyWhenNoTarget ==
    TargetsResolved =>
        /\ ex.targets.shape[1] = ExCount
        /\ ex.targets_arg = NoneValue =>
              \A i \in 1..ExCount :
                  LET t == TensorAt(ex.targets, i - 1).data
                      logits == RowLogits(ExInputs[i].input_ids[1])
                  IN  /\ Len(t) = 1
                      /\ \A k \in 1..NumClasses : logits[k] <= logits[t[1] + 1]
        /\ ex.targets_arg # NoneValue =>
              \A i \in 1..ExCount :
                  TensorAt(ex.targets, i - 1).data = PerInputTarget(ex.targets_arg, i).data

\* a call without targets over inputs whose largest logits differ has its targets
C21_Witness ==
    /\ TargetsResolved
    /\ ex.targets_arg = NoneValue
    /\ ExCount >= 2
    /\ ex.targets.data[1] # ex.targets.data[2]

\* ------------------------------------------------------------------------
\* Properties of the multitask construction (SpecMultitask)

\* the last three parts of the class name of the model
LastParts(name) == IF Len(name) < 3 THEN <<>> ELSE <<name[Len(name) - 2], name[Len(name) - 1], name[Len(name)]>>

\* C22: constructing a multitask explainer gives the classification variant
\* for a model class name ending in ForSequenceClassification, the generation
\* variant for a name ending in ForCausalLM or LMHeadModel, and fails with a
\* model-capability error, creating nothing, for any other name; exactly one
\* of the three happens
C22_DispatchOnClassNameSuffix ==
    call.op = "MultitaskExplainerMixin.__new__" /\ result # NoResult =>
        LET last3 == LastParts(call.name)
            isCls == last3 = <<"For", "Sequence", "Classification">>
            isGen == last3 \in {<<"For", "Causal", "LM">>, <<"LM", "Head", "Model">>}
            gotCls == result.status = "returned" /\ result.variant = "Classification" /\ result.created
            gotGen == result.status = "returned" /\ result.variant = "Generation" /\ result.created
            gotErr == result.status = "raised" /\ result.error = "NotImplementedError" /\ ~result.created
        IN  /\ isCls <=> gotCls
            /\ isGen <=> gotGen
            /\ ~isCls /\ ~isGen <=> gotErr
            /\ Cardinality({k \in 1..3 : <<gotCls, gotGen, gotErr>>[k]}) = 1

\* a model whose class name holds ForCausalLM, but not at its end, was refused
C22_Witness ==
    /\ call.op = "MultitaskExplainerMixin.__new__"
    /\ call.name = <<"For", "Causal", "LM", "Bert">>
    /\ result # NoResult
    /\ result.status = "raised"

\* ------------------------------------------------------------------------
\* Properties of the random mask (SpecRandom)

GetMaskDone == call.op = "get_mask" /\ result # NoResult

\* C23: the random mask has shape (p, l) for every l >= 0 and every p, its
\* entries are 0 or 1, an entry being 1 exactly when its uniform draw in [0, 1)
\* is below perturb_probability; probability 0 gives the all-zero mask and a
\* probability of 1 or more the all-one mask
C23_RandomMaskIsBernoulli ==
    GetMaskDone =>
        LET m == result.value
            n == call.n_perturbations * call.mask_dim
        IN  /\ m.shape = <<call.n_perturbations, call.mask_dim>>
            /\ Len(m.data) = n
            /\ \A j \in 1..n :
                  /\ m.data[j] \in {0, 1}
                  /\ m.data[j] = 1 <=> call.rands.data[j] < call.perturb_probability
            /\ call.perturb_probability = 0 => \A j \in 1..n : m.data[j] = 0
            /\ call.perturb_probability >= RandGrid => \A j \in 1..n : m.data[j] = 1

\* a mask of two rows was drawn with probability 0 from draws that include 0
C23_Witness ==
    /\ GetMaskDone
    /\ call.n_perturbations = 2
    /\ call.mask_dim = 2
    /\ call.perturb_probability = 0
    /\ call.rands.data[1] = 0
    /\ result.value.data = <<0, 0, 0, 0>>

\* ------------------------------------------------------------------------
\* Properties of the Sobol mask (SpecSobolMask)

SobolMaskDone == call.op = "sobol_get_mask" /\ result # NoResult

\* entry (r, c), both from 1, of a 2-D tensor
Entry(t, r, c) == t.data[(r - 1) * t.shape[2] + c]

\* C24: the Sobol mask has shape ((l+1)*k, l), in l+1 blocks of k rows, block 0
\* being the base design; for FIRST_ORDER block i has column i-1 equal to 1
\* minus the base column and the other columns equal to the base; for
\* TOTAL_ORDER block i has column i-1 equal to the base column and the other
\* columns equal to 1 minus the base; with each of the three samplers
C24_SobolMaskBlocks ==
    SobolMaskDone =>
        LET m == result.value
            k == call.n_token_perturbations
            l == call.mask_dim
        IN  /\ m.shape = <<(l + 1) * k, l>>
            /\ Len(m.data) = (l + 1) * k * l
            /\ \A j \in 1..k, c \in 1..l : Entry(m, j, c) = call.base[j][c]
            /\ \A i \in 1..l, j \in 1..k, c \in 1..l :
                  LET own == Entry(m, i * k + j, c)
                      base == Entry(m, j, c)
                  IN  IF call.sobol_indices_order = "FIRST_ORDER"
                      THEN own = (IF c = i THEN RandGrid - base ELSE base)
                      ELSE own = (IF c = i THEN base ELSE RandGrid - base)

\* a TOTAL_ORDER mask over two units was built from a Halton design
C24_Witness ==
    /\ SobolMaskDone
    /\ call.sobol_indices_order = "TOTAL_ORDER"
    /\ call.sampler = "HALTON"
    /\ call.mask_dim = 2
    /\ call.n_token_perturbations = 2
    /\ call.base[1] = <<1, 2>>
    /\ result.value.shape = <<6, 2>>

\* ------------------------------------------------------------------------
\* Properties of the generation explainer (SpecGeneration)

GenerationReturned ==
    call.op = "generation_explain" /\ result # NoResult /\ result.status = "returned"

\* what the same call gives when the explainer is configured with the level
SameCallWith(level) == GenerationExplain(level, call.kwargs, call.targets, call.inputs)

\* some label holds a special token
HasSpecialLabel(labels) ==
    \E i \in 1..Len(labels) : \E g \in 1..Len(labels[i]) : \E t \in 1..Len(labels[i][g]) :
        labels[i][g][t] \in {"[CLS]", "[SEP]", "[PAD]"}

\* C25: an explain call of a generation explainer configured with TOKEN
\* decomposes and decodes exactly as one configured with ALL_TOKENS, special
\* tokens kept; at every level that is not ALL_TOKENS after this aliasing the
\* decoded labels hold no special token
C25_TokenAliasesAllTokens ==
    GenerationReturned =>
        /\ call.granularity_level = "TOKEN" =>
              /\ result.labels = SameCallWith("ALL_TOKENS").labels
              /\ result.granularity_level = "ALL_TOKENS"
              /\ HasSpecialLabel(result.labels)
        /\ call.granularity_level = "ALL_TOKENS" => HasSpecialLabel(result.labels)
        /\ result.granularity_level # "ALL_TOKENS" => ~HasSpecialLabel(result.labels)

\* a generation explainer configured with TOKEN returned labels with special tokens
C25_Witness ==
    /\ GenerationReturned
    /\ call.granularity_level = "TOKEN"
    /\ Len(call.inputs) = 2
    /\ result.labels[1][1] = <<"[CLS]">>

\* ------------------------------------------------------------------------
\* Properties of get_gradients (SpecGradients)

GradientsEnded ==
    /\ iterCall.op = "get_gradients"
    /\ iterCall.kind = "iterable"
    /\ iterState.pc \in {"done", "raised"}

\* C26: over an iterable of m inputs get_gradients reads a 1-D target of
\* length t as get_targeted_logits does: the same t targets for every input,
\* whatever m is, so that the gradient of input i differentiates the logits
\* get_targeted_logits yields for input i
C26_GradientsReadTargetsAsTargetedLogits ==
    (GradientsEnded /\ Dim(iterCall.targets) = 1 /\ Len(iterCall.inputs) >= 1) =>
        /\ iterState.pc = "done"
        /\ Len(iterState.outputs) = Len(iterCall.inputs)
        /\ \A i \in 1..Len(iterCall.inputs) :
              iterState.outputs[i].targeted =
                  TargetedLogitsOfElement(ModelLogits[iterCall.inputs[i]], iterCall.targets, i - 1).value

\* the number of target entries along the first axis differs from the number of inputs
GradientCountsDiffer ==
    Dim(iterCall.targets) >= 1 /\ iterCall.targets.shape[1] # Len(iterCall.inputs)

\* the single-input gradient call on input i paired with entry i of the targets
PairedGradient(i) ==
    get_gradients_from_mapping(iterCall.inputs[i], TensorAt(iterCall.targets, i - 1))

ReplaceTokenCount == Cardinality({i \in 1..Len(vocab) : vocab[i] = ReplaceToken})

\* one construction: a vocabulary that has the token, and the embedding table
\* with it, stay as they are; otherwise the token is appended and the table
\* gets one row per token; no other token changes its id
ConstructionRegistersOnce ==
    LET had == ReplaceToken \in get_vocab(vocab)
        made == explainers'[Len(explainers')]
    IN  /\ Len(explainers') = Len(explainers) + 1
        /\ made.registered = ~had
        /\ had => vocab' = vocab /\ embeddingRows' = embeddingRows
        /\ ~had => vocab' = Append(vocab, ReplaceToken) /\ embeddingRows' = Len(vocab')

\* C30: however many Sobol explainers are constructed over one tokenizer and
\* model, the token is in the vocabulary at most once and is added only by a
\* construction that found it missing, which is also the only one to resize
\* the embedding table, to the vocabulary size; every construction hands the
\* same id, that of the token, to its perturbator
C30_ReplaceTokenRegisteredOnce ==
    /\ [][ConstructionRegistersOnce]_vars
    /\ [](/\ ReplaceTokenCount <= 1
          /\ explainers # <<>> => ReplaceTokenCount = 1
          /\ \A i \in 1..Len(explainers) :
                /\ explainers[i].replace_token_id = convert_token_to_id(vocab, ReplaceToken)
                /\ explainers[i].registered => i = 1
          /\ (explainers # <<>> /\ explainers[1].registered) => embeddingRows = Len(vocab))

\* three constructions over a tokenizer that lacked the token: the first one
\* registered it as the last token, the others found it
C30_Witness ==
    /\ Len(explainers) = MaxExplainers
    /\ explainers[1].registered
    /\ ~explainers[2].registered
    /\ vocab = <<"[PAD]", "[UNK]", "cat", "[REPLACE]">>
    /\ embeddingRows = 4
    /\ explainers[MaxExplainers].replace_token_id = 3

====
